---------------------------- MODULE Spec2Model ----------------------------
(***************************************************************************)
(* A model of cms-embedded-utils: the stateless string engine              *)
(* (src/src/cmsStringUtil.cpp, namespace cms::string) and the buffer-bound *)
(* facade StringBase (src/src/cmsStringBase.cpp).                          *)
(*                                                                         *)
(* Memory is a function from byte offsets 0..N-1 to bytes 0..255.  A       *)
(* buffer of capacity C occupies offsets 0..C-1 of its memory; the offsets *)
(* from C on are the bytes that happen to lie behind the buffer, so that a *)
(* write at an offset >= C is visible.  C strings passed as arguments are  *)
(* sequences of non-zero bytes (the terminator is implicit), NULL is the   *)
(* null pointer.                                                           *)
(***************************************************************************)
EXTENDS Integers, Sequences, FiniteSets, TLC

VARIABLES
    _buf,         \* StringBase::_buf: the memory the facade is bound to
    _capacity,    \* StringBase::_capacity
    _len,         \* StringBase::_len
    _maxLenSeen,  \* StringBase::_maxLenSeen
    lastOp,       \* the facade method that ran last, with what it observed
    pc,           \* engine harness: number of engine calls made so far
    in,           \* engine harness: the arguments of the call
    out           \* engine harness: what the call returned and wrote

vars == <<_buf, _capacity, _len, _maxLenSeen, lastOp, pc, in, out>>

facadeVars == <<_buf, _capacity, _len, _maxLenSeen, lastOp>>
harnessVars == <<pc, in, out>>

-----------------------------------------------------------------------------
(* Bytes and C strings *)

NULL == <<-1>>

Byte == 0..255

\* (b & 0xC0) == 0x80
IsCont(b) == b >= 128 /\ b <= 191

\* m[i] for a memory m; past the modelled window the memory reads as zero
Rd(m, i) == IF i \in DOMAIN m THEN m[i] ELSE 0

\* s[i] for a C string s given as a sequence, 0-based, with its terminator
CAt(s, i) == IF i >= 0 /\ i < Len(s) THEN s[i + 1] ELSE 0

\* one byte stored at offset i (a store behind the window is not kept)
Store(m, i, b) == IF i \in DOMAIN m THEN [m EXCEPT ![i] = b] ELSE m

\* memcpy(m + dst, s, n) from a C string argument
MemcpySeq(m, dst, s, n) ==
    [i \in DOMAIN m |-> IF i >= dst /\ i < dst + n THEN CAt(s, i - dst) ELSE m[i]]

\* memmove(m + dst, m + src, n): the source bytes are read before any is stored
Memmove(m, dst, src, n) ==
    [i \in DOMAIN m |-> IF i >= dst /\ i < dst + n THEN Rd(m, src + (i - dst)) ELSE m[i]]

\* strlen(m + from)
strlen(m, from) ==
    LET N == Cardinality(DOMAIN m)
    IN  CHOOSE i \in from..(IF N > from THEN N ELSE from) :
            /\ Rd(m, i) = 0
            /\ \A j \in from..(i - 1) : Rd(m, j) # 0

\* the bytes m[from], ..., m[from + n - 1] as a sequence
Bytes(m, from, n) == [i \in 1..n |-> Rd(m, from + i - 1)]

\* the C string stored at m + from
CStr(m, from) == Bytes(m, from, strlen(m, from) - from)

\* a memory of n bytes holding s, a terminator and the filler byte behind it
MemOf(s, n, fill) ==
    [i \in 0..(n - 1) |-> IF i < Len(s) THEN s[i + 1] ELSE IF i = Len(s) THEN 0 ELSE fill]

Min(a, b) == IF a < b THEN a ELSE b
Max(a, b) == IF a > b THEN a ELSE b

RECURSIVE Flatten(_)
Flatten(ss) == IF ss = <<>> THEN <<>> ELSE Head(ss) \o Flatten(Tail(ss))

SeqsUpTo(S, n) == UNION {[1..k -> S] : k \in 0..n}

-----------------------------------------------------------------------------
(* findUtf8CharStart: logical character index -> byte offset *)

\* a < b for two size_t values.  A size_t value of 2^(w-1) or more is carried
\* as the negative number congruent to it modulo 2^w (the largest value as -1),
\* so that sums and differences of size_t values are plain sums and differences
SizeLess(a, b) ==
    IF (a < 0) = (b < 0) THEN a < b ELSE b < 0

RECURSIVE CharStartScan(_, _, _, _)
CharStartScan(m, p, count, charIdx) ==
    IF Rd(m, p) # 0 /\ SizeLess(count, charIdx)
    THEN CharStartScan(m, p + 1, IF ~IsCont(Rd(m, p)) THEN count + 1 ELSE count, charIdx)
    ELSE p

RECURSIVE SkipCont(_, _)
SkipCont(m, p) ==
    IF Rd(m, p) # 0 /\ IsCont(Rd(m, p)) THEN SkipCont(m, p + 1) ELSE p

findUtf8CharStart(m, str, charIdx) == SkipCont(m, CharStartScan(m, str, 0, charIdx))

-----------------------------------------------------------------------------
(* Branch-free ASCII classifiers of cmsStringUtil.h, in 8-bit arithmetic *)

\* (unsigned char)x for an int x
U8(x) == x % 256

\* the mask with the test against the upper end of the range left out
InRangeMask_LowerEndOnly(lo, hi, c) ==
    IF U8(lo - 1 - c) >= 128 THEN 1 ELSE 0

\* (unsigned char)((unsigned char)(lo - 1 - c) & (unsigned char)(c - (hi + 1))) >> 7
InRangeMask(lo, hi, c) ==
    IF U8(lo - 1 - c) >= 128 /\ U8(c - (hi + 1)) >= 128 THEN 1 ELSE 0

\* c | (mask << 5)
toLower(c) ==
    IF InRangeMask(65, 90, c) = 1 /\ (c \div 32) % 2 = 0 THEN c + 32 ELSE c

\* c & ~(mask << 5)
toUpper(c) ==
    IF InRangeMask(97, 122, c) = 1 /\ (c \div 32) % 2 = 1 THEN c - 32 ELSE c

isDigit(c) == InRangeMask(48, 57, c) = 1

isSpace(c) == InRangeMask(9, 13, c) = 1 \/ InRangeMask(32, 32, c) = 1

isHexDigit(c) ==
    InRangeMask(48, 57, c) = 1 \/ InRangeMask(97, 102, c) = 1 \/ InRangeMask(65, 70, c) = 1

-----------------------------------------------------------------------------
(* Search: strstr/strchr of the C library, strcasestr of the engine.       *)
(* A haystack is a position in a memory; the result is a position, or      *)
(* NotFound for nullptr.                                                    *)

NotFound == -1

\* strstr(m + from, needle): the first position at which needle occurs
strstr(m, from, needle) ==
    LET end == strlen(m, from)
        at == {i \in from..(end - Len(needle)) :
                  \A k \in 1..Len(needle) : Rd(m, i + k - 1) = needle[k]}
    IN  IF at = {} THEN NotFound ELSE CHOOSE i \in at : \A j \in at : i <= j

\* strchr(m + from, c) for c # 0
strchr(m, from, c) == strstr(m, from, <<c>>)

\* the table built with every mismatch falling back to the pattern's start
RECURSIVE computeLPSLoop_NoFallback(_, _, _, _, _)
computeLPSLoop_NoFallback(pat, m, lps, i, len) ==
    IF i >= m THEN lps ELSE computeLPSLoop_NoFallback(pat, m, [lps EXCEPT ![i] = 0], i + 1, 0)

\* while (i < m) { ... } of computeLPS; lps[k] = -1 stands for an entry not yet set
RECURSIVE computeLPSLoop(_, _, _, _, _)
computeLPSLoop(pat, m, lps, i, len) ==
    IF i >= m THEN lps
    ELSE IF toLower(CAt(pat, i)) = toLower(CAt(pat, len))
         THEN computeLPSLoop(pat, m, [lps EXCEPT ![i] = len + 1], i + 1, len + 1)
    ELSE IF len # 0
         THEN computeLPSLoop(pat, m, lps, i, lps[len - 1])
    ELSE computeLPSLoop(pat, m, [lps EXCEPT ![i] = 0], i + 1, 0)

\* void computeLPS(const char* pat, size_t m, int16_t* lps)
computeLPS(pat, m) ==
    computeLPSLoop(pat, m, [k \in 0..(m - 1) |-> IF k = 0 THEN 0 ELSE -1], 1, 0)

\* the pattern length up to which strcasestr builds the table on the stack
KmpMaxPattern == 64

\* while (haystack[i]) { ... } of strcasestr, partial-match-table path
RECURSIVE strcasestrKmp(_, _, _, _, _, _)
strcasestrKmp(m, haystack, needle, lps, i, j) ==
    IF Rd(m, haystack + i) = 0 THEN NotFound
    ELSE LET hit == toLower(Rd(m, haystack + i)) = toLower(CAt(needle, j))
             i1 == IF hit THEN i + 1 ELSE i
             j1 == IF hit THEN j + 1 ELSE j
         IN  IF j1 = Len(needle) THEN haystack + i1 - Len(needle)
             ELSE IF Rd(m, haystack + i1) # 0
                     /\ toLower(Rd(m, haystack + i1)) # toLower(CAt(needle, j1))
                  THEN IF j1 # 0
                       THEN strcasestrKmp(m, haystack, needle, lps, i1, lps[j1 - 1])
                       ELSE strcasestrKmp(m, haystack, needle, lps, i1 + 1, j1)
             ELSE strcasestrKmp(m, haystack, needle, lps, i1, j1)

\* while (*h && *n && lower(*h) == lower(*n)) of the fallback: the number of
\* bytes after the first that agree
RECURSIVE strcasestrRun(_, _, _, _)
strcasestrRun(m, h, needle, n) ==
    IF Rd(m, h) # 0 /\ CAt(needle, n) # 0 /\ toLower(Rd(m, h)) = toLower(CAt(needle, n))
    THEN strcasestrRun(m, h + 1, needle, n + 1)
    ELSE n

\* for (; *haystack; haystack++) { ... } of strcasestr, fallback path
RECURSIVE strcasestrNaive(_, _, _)
strcasestrNaive(m, haystack, needle) ==
    IF Rd(m, haystack) = 0 THEN NotFound
    ELSE IF toLower(Rd(m, haystack)) = toLower(CAt(needle, 0))
            /\ CAt(needle, strcasestrRun(m, haystack + 1, needle, 1)) = 0
         THEN haystack
    ELSE strcasestrNaive(m, haystack + 1, needle)

\* const char* strcasestr(const char* haystack, const char* needle)
strcasestr(m, haystack, needle) ==
    IF CAt(needle, 0) = 0 THEN haystack
    ELSE IF Len(needle) <= KmpMaxPattern
         THEN strcasestrKmp(m, haystack, needle, computeLPS(needle, Len(needle)), 0, 0)
         ELSE strcasestrNaive(m, haystack, needle)

\* the number of lead bytes in m[from..to-1]
RECURSIVE CountLeads(_, _, _)
CountLeads(m, from, to) ==
    IF from >= to THEN 0
    ELSE (IF ~IsCont(Rd(m, from)) THEN 1 ELSE 0) + CountLeads(m, from + 1, to)

\* find without the test for an empty target
find_NoEmptyCheck(m, strLen, target, targetLen, startChar, ignoreCase) ==
    IF target = NULL \/ targetLen > strLen THEN -1
    ELSE LET startPtr == findUtf8CharStart(m, 0, startChar)
             foundPtr == IF ignoreCase THEN strcasestr(m, startPtr, target)
                         ELSE strstr(m, startPtr, target)
         IN  IF Rd(m, startPtr) = 0 THEN -1
             ELSE IF foundPtr = NotFound THEN -1
             ELSE startChar + CountLeads(m, startPtr, foundPtr)

\* find that returns the byte distance instead of the character count
find_ByteOffset(m, strLen, target, targetLen, startChar, ignoreCase) ==
    IF target = NULL \/ targetLen = 0 \/ targetLen > strLen THEN -1
    ELSE LET startPtr == findUtf8CharStart(m, 0, startChar)
             foundPtr == IF ignoreCase THEN strcasestr(m, startPtr, target)
                         ELSE strstr(m, startPtr, target)
         IN  IF Rd(m, startPtr) = 0 THEN -1
             ELSE IF foundPtr = NotFound THEN -1
             ELSE startChar + (foundPtr - startPtr)

\* int find(const char* str, size_t strLen, const char* target, size_t targetLen,
\*          size_t startChar, bool ignoreCase)
find(m, strLen, target, targetLen, startChar, ignoreCase) ==
    IF target = NULL \/ targetLen = 0 \/ targetLen > strLen THEN -1
    ELSE LET startPtr == findUtf8CharStart(m, 0, startChar)
             foundPtr == IF ignoreCase THEN strcasestr(m, startPtr, target)
                         ELSE strstr(m, startPtr, target)
         IN  IF Rd(m, startPtr) = 0 THEN -1
             ELSE IF foundPtr = NotFound THEN -1
             ELSE startChar + CountLeads(m, startPtr, foundPtr)

-----------------------------------------------------------------------------
(* Mutation engine: append, insert.  Each returns the memory, the new      *)
(* length and the set of offsets it stored to.                             *)

Unchanged(buffer, curLen) == [buf |-> buffer, len |-> curLen, wr |-> {}]

\* append with the terminator's slot counted as room for data
append_NoTerminatorSlot(buffer, maxLen, curLen, src, srcLen) ==
    IF src = NULL \/ srcLen = 0 \/ curLen >= maxLen - 1
    THEN Unchanged(buffer, curLen)
    ELSE LET available == maxLen - curLen
             toCopy == IF srcLen < available THEN srcLen ELSE available
         IN  [buf |-> Store(MemcpySeq(buffer, curLen, src, toCopy), curLen + toCopy, 0),
              len |-> curLen + toCopy,
              wr  |-> curLen..(curLen + toCopy)]

append(buffer, maxLen, curLen, src, srcLen) ==
    IF src = NULL \/ srcLen = 0 \/ curLen >= maxLen - 1
    THEN Unchanged(buffer, curLen)
    ELSE LET available == maxLen - 1 - curLen
             toCopy == IF srcLen < available THEN srcLen ELSE available
         IN  IF toCopy > 0
             THEN [buf |-> Store(MemcpySeq(buffer, curLen, src, toCopy), curLen + toCopy, 0),
                   len |-> curLen + toCopy,
                   wr  |-> curLen..(curLen + toCopy)]
             ELSE Unchanged(buffer, curLen)

\* insert that shifts the tail by the whole source length, clamping only the copy
insert_ShiftUnclamped(buffer, maxLen, curLen, charIdx, src) ==
    IF src = NULL \/ CAt(src, 0) = 0
    THEN Unchanged(buffer, curLen)
    ELSE LET byteOffset == findUtf8CharStart(buffer, 0, charIdx)
             srcLen == IF curLen + Len(src) >= maxLen
                       THEN (IF maxLen > curLen + 1 THEN maxLen - curLen - 1 ELSE 0)
                       ELSE Len(src)
             shifted == IF byteOffset < curLen
                        THEN Memmove(buffer, byteOffset + Len(src), byteOffset, curLen - byteOffset + 1)
                        ELSE Store(buffer, curLen + srcLen, 0)
             wrShift == IF byteOffset < curLen
                        THEN (byteOffset + Len(src))..(curLen + Len(src))
                        ELSE {curLen + srcLen}
         IN  IF srcLen = 0
             THEN Unchanged(buffer, curLen)
             ELSE [buf |-> MemcpySeq(shifted, byteOffset, src, srcLen),
                   len |-> curLen + srcLen,
                   wr  |-> wrShift \cup (byteOffset..(byteOffset + srcLen - 1))]

insert(buffer, maxLen, curLen, charIdx, src) ==
    IF src = NULL \/ CAt(src, 0) = 0
    THEN Unchanged(buffer, curLen)
    ELSE LET byteOffset == findUtf8CharStart(buffer, 0, charIdx)
             srcLen == IF curLen + Len(src) >= maxLen
                       THEN (IF maxLen > curLen + 1 THEN maxLen - curLen - 1 ELSE 0)
                       ELSE Len(src)
             shifted == IF byteOffset < curLen
                        THEN Memmove(buffer, byteOffset + srcLen, byteOffset, curLen - byteOffset + 1)
                        ELSE Store(buffer, curLen + srcLen, 0)
             wrShift == IF byteOffset < curLen
                        THEN (byteOffset + srcLen)..(curLen + srcLen)
                        ELSE {curLen + srcLen}
         IN  IF srcLen = 0
             THEN Unchanged(buffer, curLen)
             ELSE [buf |-> MemcpySeq(shifted, byteOffset, src, srcLen),
                   len |-> curLen + srcLen,
                   wr  |-> wrShift \cup (byteOffset..(byteOffset + srcLen - 1))]

-----------------------------------------------------------------------------
(* UTF-8 validation and repair *)

\* The tests validateUtf8 makes on the bytes behind a lead byte b0, in the
\* order of its || chains: byte k must lie in lo..hi. No entry: b0 is no lead.
TailRanges(b0) ==
    LET cont == [lo |-> 128, hi |-> 191]
    IN  IF b0 >= 194 /\ b0 <= 223 THEN <<cont>>
        ELSE IF b0 = 224 THEN <<[lo |-> 160, hi |-> 191], cont>>
        ELSE IF b0 >= 225 /\ b0 <= 236 THEN <<cont, cont>>
        ELSE IF b0 = 237 THEN <<[lo |-> 128, hi |-> 159], cont>>
        ELSE IF b0 >= 238 /\ b0 <= 239 THEN <<cont, cont>>
        ELSE IF b0 = 240 THEN <<[lo |-> 144, hi |-> 191], cont, cont>>
        ELSE IF b0 >= 241 /\ b0 <= 243 THEN <<cont, cont, cont>>
        ELSE IF b0 = 244 THEN <<[lo |-> 128, hi |-> 143], cont, cont>>
        ELSE <<>>

\* one || chain, left to right: bytes[k] is read only when bytes[k-1] passed;
\* rd collects the offsets read
RECURSIVE tailScan(_, _, _, _, _)
tailScan(m, p, ranges, k, rd) ==
    IF k > Len(ranges) THEN [ok |-> TRUE, rd |-> rd]
    ELSE LET b == Rd(m, p + k)
         IN  IF b < ranges[k].lo \/ b > ranges[k].hi
             THEN [ok |-> FALSE, rd |-> rd \cup {p + k}]
             ELSE tailScan(m, p, ranges, k + 1, rd \cup {p + k})

\* the scan with surrogates (ED A0..BF) let through
RECURSIVE validateScan_SurrogatesPass(_, _, _)
validateScan_SurrogatesPass(m, p, rd) ==
    LET b0 == Rd(m, p)
        ranges == IF b0 = 237 THEN TailRanges(238) ELSE TailRanges(b0)
        t == tailScan(m, p, ranges, 1, rd \cup {p})
    IN  IF b0 = 0 THEN [ok |-> TRUE, rd |-> rd \cup {p}]
        ELSE IF b0 <= 127 THEN validateScan_SurrogatesPass(m, p + 1, rd \cup {p})
        ELSE IF ranges = <<>> THEN [ok |-> FALSE, rd |-> rd \cup {p}]
        ELSE IF ~t.ok THEN t
        ELSE validateScan_SurrogatesPass(m, p + Len(ranges) + 1, t.rd)

\* while (*bytes) { ... } of validateUtf8, from offset p: the result and the
\* offsets read
RECURSIVE validateScan(_, _, _)
validateScan(m, p, rd) ==
    LET b0 == Rd(m, p)
        ranges == TailRanges(b0)
        t == tailScan(m, p, ranges, 1, rd \cup {p})
    IN  IF b0 = 0 THEN [ok |-> TRUE, rd |-> rd \cup {p}]
        ELSE IF b0 <= 127 THEN validateScan(m, p + 1, rd \cup {p})
        ELSE IF ranges = <<>> THEN [ok |-> FALSE, rd |-> rd \cup {p}]
        ELSE IF ~t.ok THEN t
        ELSE validateScan(m, p + Len(ranges) + 1, t.rd)

validateFrom(m, p) == validateScan(m, p, {}).ok

\* bool validateUtf8(const char* str), str a terminated string in memory m
validateUtf8(m) == validateFrom(m, 0)

\* "\xEF\xBF\xBD", U+FFFD
replacement == <<239, 191, 189>>
replLen == 3

\* The branch sanitizeUtf8 takes at src = m + p: the number of bytes of the
\* sequence it accepts there, or 0 when it takes a replace-one-byte branch.
sanitizeSeqLen(m, p) ==
    LET b0 == Rd(m, p)
        b1 == Rd(m, p + 1)
        b2 == Rd(m, p + 2)
        b3 == Rd(m, p + 3)
    IN  IF b0 <= 127 THEN 1
        ELSE IF b0 >= 194 /\ b0 <= 223
             THEN IF b1 # 0 /\ IsCont(b1) THEN 2 ELSE 0
        ELSE IF b0 = 224
             THEN IF b1 # 0 /\ b2 # 0 /\ b1 >= 160 /\ b1 <= 191 /\ IsCont(b2) THEN 3 ELSE 0
        ELSE IF b0 >= 225 /\ b0 <= 236
             THEN IF b1 # 0 /\ b2 # 0 /\ IsCont(b1) /\ IsCont(b2) THEN 3 ELSE 0
        ELSE IF b0 = 237
             THEN IF b1 # 0 /\ b2 # 0 /\ b1 >= 128 /\ b1 <= 159 /\ IsCont(b2) THEN 3 ELSE 0
        ELSE IF b0 >= 238 /\ b0 <= 239
             THEN IF b1 # 0 /\ b2 # 0 /\ IsCont(b1) /\ IsCont(b2) THEN 3 ELSE 0
        ELSE IF b0 = 240
             THEN IF b1 # 0 /\ b2 # 0 /\ b3 # 0 /\ b1 >= 144 /\ b1 <= 191 /\ IsCont(b2) /\ IsCont(b3)
                  THEN 4 ELSE 0
        ELSE IF b0 >= 241 /\ b0 <= 243
             THEN IF b1 # 0 /\ b2 # 0 /\ b3 # 0 /\ IsCont(b1) /\ IsCont(b2) /\ IsCont(b3)
                  THEN 4 ELSE 0
        ELSE IF b0 = 244
             THEN IF b1 # 0 /\ b2 # 0 /\ b3 # 0 /\ b1 >= 128 /\ b1 <= 143 /\ IsCont(b2) /\ IsCont(b3)
                  THEN 4 ELSE 0
        ELSE 0

\* *dst++ = *src++, n times: each byte is read after the earlier ones were stored
RECURSIVE CopyForward(_, _, _, _)
CopyForward(m, dst, src, n) ==
    IF n = 0 THEN m ELSE CopyForward(Store(m, dst, Rd(m, src)), dst + 1, src + 1, n - 1)

\* the loop with the one-byte room test of the ASCII branch used for every sequence
RECURSIVE sanitizeLoop_RoomForOneByte(_, _, _, _)
sanitizeLoop_RoomForOneByte(m, src, dst, maxLen) ==
    LET n == sanitizeSeqLen(m, src)
    IN  IF Rd(m, src) = 0 THEN [buf |-> m, dst |-> dst]
        ELSE IF n > 0
             THEN IF dst + 1 >= maxLen
                  THEN [buf |-> m, dst |-> dst]
                  ELSE sanitizeLoop_RoomForOneByte(CopyForward(m, dst, src, n), src + n, dst + n, maxLen)
        ELSE IF dst + replLen < maxLen
             THEN sanitizeLoop_RoomForOneByte(MemcpySeq(m, dst, replacement, replLen), src + 1, dst + replLen, maxLen)
        ELSE IF dst < maxLen - 1
             THEN sanitizeLoop_RoomForOneByte(Store(m, dst, 63), src + 1, dst + 1, maxLen)
        ELSE [buf |-> m, dst |-> dst]

\* the loop with the replacement's room test off by one (<= for <)
RECURSIVE sanitizeLoop_ReplacementRoomOffByOne(_, _, _, _)
sanitizeLoop_ReplacementRoomOffByOne(m, src, dst, maxLen) ==
    LET n == sanitizeSeqLen(m, src)
    IN  IF Rd(m, src) = 0 THEN [buf |-> m, dst |-> dst]
        ELSE IF n > 0
             THEN IF dst + n >= maxLen
                  THEN [buf |-> m, dst |-> dst]
                  ELSE sanitizeLoop_ReplacementRoomOffByOne(CopyForward(m, dst, src, n), src + n, dst + n, maxLen)
        ELSE IF dst + replLen <= maxLen
             THEN sanitizeLoop_ReplacementRoomOffByOne(MemcpySeq(m, dst, replacement, replLen), src + 1, dst + replLen, maxLen)
        ELSE IF dst < maxLen - 1
             THEN sanitizeLoop_ReplacementRoomOffByOne(Store(m, dst, 63), src + 1, dst + 1, maxLen)
        ELSE [buf |-> m, dst |-> dst]

\* while (*src) { ... } of sanitizeUtf8: src and dst walk the same memory
RECURSIVE sanitizeLoop(_, _, _, _)
sanitizeLoop(m, src, dst, maxLen) ==
    LET n == sanitizeSeqLen(m, src)
    IN  IF Rd(m, src) = 0 THEN [buf |-> m, dst |-> dst]
        ELSE IF n > 0
             THEN IF dst + n >= maxLen
                  THEN [buf |-> m, dst |-> dst]
                  ELSE sanitizeLoop(CopyForward(m, dst, src, n), src + n, dst + n, maxLen)
        ELSE IF dst + replLen < maxLen
             THEN sanitizeLoop(MemcpySeq(m, dst, replacement, replLen), src + 1, dst + replLen, maxLen)
        ELSE IF dst < maxLen - 1
             THEN sanitizeLoop(Store(m, dst, 63), src + 1, dst + 1, maxLen)
        ELSE [buf |-> m, dst |-> dst]

\* size_t sanitizeUtf8(char* str, size_t maxLen)
sanitizeUtf8(m, maxLen) ==
    IF maxLen = 0
    THEN [buf |-> m, len |-> 0]
    ELSE LET r == sanitizeLoop(m, 0, 0, maxLen)
         IN  IF r.dst < maxLen
             THEN [buf |-> Store(r.buf, r.dst, 0), len |-> r.dst]
             ELSE [buf |-> Store(r.buf, maxLen - 1, 0), len |-> maxLen - 1]

-----------------------------------------------------------------------------
(* Wide numbers.  An unsigned long is carried as the sequence of its        *)
(* decimal digits, most significant first and without leading zeros         *)
(* (<<0>> for zero), so that 64-bit values are within the model's reach; a  *)
(* long is [neg, mag] with mag such a sequence.                              *)

RECURSIVE Wide(_)
Wide(n) == IF n < 10 THEN <<n>> ELSE Append(Wide(n \div 10), (n % 10))

\* a long from an integer of the model (above -2^31)
Long(n) == IF n < 0 THEN [neg |-> TRUE, mag |-> Wide(-n)] ELSE [neg |-> FALSE, mag |-> Wide(n)]

\* uval < 10^k
WideBelowPow10(uval, k) == Len(uval) <= k

\* uval + 1
RECURSIVE WideInc(_)
WideInc(uval) ==
    IF uval = <<>> THEN <<1>>
    ELSE IF uval[Len(uval)] < 9
         THEN [uval EXCEPT ![Len(uval)] = @ + 1]
         ELSE Append(WideInc(SubSeq(uval, 1, Len(uval) - 1)), 0)

-----------------------------------------------------------------------------
(* Number formatting: appendUIntInternal, appendInt, appendFloat.  The      *)
(* length is passed by reference in the source; here each returns the       *)
(* memory and the length.  fault = TRUE: writeIdx, a size_t, has wrapped    *)
(* below zero and the padding loop runs through memory; the call does not   *)
(* return.                                                                   *)

\* the digits of v stored back to front, two at a time through digitsTable
RECURSIVE StoreDigits(_, _, _)
StoreDigits(buffer, writeIdx, v) ==
    LET n == Len(v) IN
    IF ~WideBelowPow10(v, 2)
    THEN StoreDigits(Store(Store(buffer, writeIdx - 1, 48 + v[n]), writeIdx - 2, 48 + v[n - 1]),
                     writeIdx - 2, SubSeq(v, 1, n - 2))
    ELSE IF ~WideBelowPow10(v, 1)
    THEN [buf |-> Store(Store(buffer, writeIdx - 1, 48 + v[n]), writeIdx - 2, 48 + v[n - 1]),
          writeIdx |-> writeIdx - 2]
    ELSE [buf |-> Store(buffer, writeIdx - 1, 48 + v[n]), writeIdx |-> writeIdx - 1]

\* while (writeIdx > startIdx) buffer[--writeIdx] = padChar
StorePad(buffer, startIdx, writeIdx, padChar) ==
    [i \in DOMAIN buffer |-> IF i >= startIdx /\ i < writeIdx THEN padChar ELSE buffer[i]]

\* the if-chain that counts the decimal digits of uval
DigitsCount(uval) ==
    IF WideBelowPow10(uval, 1) THEN 1
    ELSE IF WideBelowPow10(uval, 2) THEN 2
    ELSE IF WideBelowPow10(uval, 3) THEN 3
    ELSE IF WideBelowPow10(uval, 4) THEN 4
    ELSE IF WideBelowPow10(uval, 5) THEN 5
    ELSE IF WideBelowPow10(uval, 6) THEN 6
    ELSE IF WideBelowPow10(uval, 7) THEN 7
    ELSE IF WideBelowPow10(uval, 8) THEN 8
    ELSE IF WideBelowPow10(uval, 9) THEN 9
    ELSE 10

\* void appendUIntInternal(char* buffer, size_t maxLen, size_t& curLen,
\*                         unsigned long uval, int width, char padChar)
appendUIntInternal(buffer, maxLen, curLen, uval, width, padChar) ==
    LET digitsCount == DigitsCount(uval)
        totalLen == IF digitsCount > width THEN digitsCount ELSE width
        startIdx == curLen
        writeIdx == curLen + totalLen
    IN  IF curLen + totalLen >= maxLen
        THEN [buf |-> buffer, len |-> curLen, fault |-> FALSE]
        ELSE LET d == StoreDigits(Store(buffer, writeIdx, 0), writeIdx, uval)
             IN  IF d.writeIdx < 0
                 THEN [buf |-> d.buf, len |-> writeIdx, fault |-> TRUE]
                 ELSE [buf |-> StorePad(d.buf, startIdx, d.writeIdx, padChar),
                       len |-> writeIdx, fault |-> FALSE]

\* void appendInt(char* buffer, size_t maxLen, size_t& curLen, long val,
\*                int width, char padChar)
appendInt(buffer, maxLen, curLen, val, width, padChar) ==
    IF curLen >= maxLen - 1
    THEN [buf |-> buffer, len |-> curLen, fault |-> FALSE]
    ELSE IF val.neg
    THEN appendUIntInternal(Store(buffer, curLen, 45), maxLen, curLen + 1,
                            val.mag, IF width > 0 THEN width - 1 ELSE 0, padChar)
    ELSE appendUIntInternal(buffer, maxLen, curLen, val.mag, width, padChar)

\* A double is carried as [neg, whole, micro]: its sign, the integer part of
\* its magnitude as a wide number and the rest in millionths.  The sums and
\* products below are exact in that unit; DoubleExact says for which values
\* and places the double arithmetic of the source gives the same digits.
Micro == 1000000

\* the double of a signed number of millionths
Double(n) ==
    LET a == IF n < 0 THEN -n ELSE n
    IN  [neg |-> n < 0, whole |-> Wide(a \div Micro), micro |-> a % Micro]

RECURSIVE Pow10(_)
Pow10(n) == IF n <= 0 THEN 1 ELSE 10 * Pow10(n - 1)

\* roundingOffsets[decimalPlaces], in millionths
roundingOffsets(decimalPlaces) == (Micro \div 2) \div Pow10(decimalPlaces)

\* (unsigned long)(fracPart * powersOf10[decimalPlaces] + 1e-9), fracPart in millionths
FracInt(fracPart, decimalPlaces) ==
    IF decimalPlaces <= 6
    THEN fracPart \div Pow10(6 - decimalPlaces)
    ELSE fracPart * Pow10(decimalPlaces - 6)

\* void appendFloat(char* buffer, size_t maxLen, size_t& curLen, double val,
\*                  int decimalPlaces)
appendFloat(buffer, maxLen, curLen, val, decimalPlaces) ==
    IF curLen >= maxLen - 1
    THEN [buf |-> buffer, len |-> curLen, fault |-> FALSE]
    ELSE LET dp == IF decimalPlaces < 0 THEN 0 ELSE IF decimalPlaces > 9 THEN 9 ELSE decimalPlaces
             signed == IF val.neg THEN [buf |-> Store(buffer, curLen, 45), len |-> curLen + 1]
                       ELSE [buf |-> buffer, len |-> curLen]
             sum == val.micro + roundingOffsets(dp)
             intPart == IF sum >= Micro THEN WideInc(val.whole) ELSE val.whole
             whole == appendInt(signed.buf, maxLen, signed.len,
                                [neg |-> FALSE, mag |-> intPart], 0, 32)
         IN  IF whole.fault THEN whole
             ELSE IF dp > 0 /\ whole.len < maxLen - 1
             THEN LET fracPart == sum % Micro
                      raw == FracInt(fracPart, dp)
                      fracInt == IF raw >= Pow10(dp) THEN Pow10(dp) - 1 ELSE raw
                  IN  appendUIntInternal(Store(whole.buf, whole.len, 46), maxLen,
                                         whole.len + 1, Wide(fracInt), dp, 48)
             ELSE whole

-----------------------------------------------------------------------------
(* The format engine: appendHexInternal and appendPrintf.  The format is a  *)
(* position in a memory, so that a read behind its terminator sees what the *)
(* memory holds there.  The argument list is a sequence; an argument is a   *)
(* record with one field per type va_arg reads it as (text, int, long, uns, *)
(* dbl, chr), uns being an unsigned value below 2^31.  The result carries   *)
(* the memory and length, the final read position p and the number of       *)
(* arguments taken.                                                          *)

\* hexChars[d]
HexChar(d, uppercase) == IF d < 10 THEN 48 + d ELSE IF uppercase THEN 55 + d ELSE 87 + d

\* while (temp > 0) { temp >>= 4; digitsCount++; }
RECURSIVE HexDigitsCount(_)
HexDigitsCount(temp) == IF temp = 0 THEN 0 ELSE 1 + HexDigitsCount(temp \div 16)

\* for (i < digitsCount) { buffer[--writeIdx] = hexChars[v & 0xF]; v >>= 4; }
RECURSIVE StoreHex(_, _, _, _, _)
StoreHex(buffer, writeIdx, v, n, uppercase) ==
    IF n = 0 THEN buffer
    ELSE StoreHex(Store(buffer, writeIdx - 1, HexChar(v % 16, uppercase)),
                  writeIdx - 1, v \div 16, n - 1, uppercase)

\* void appendHexInternal(char* buffer, size_t maxLen, size_t& curLen,
\*                        unsigned long uval, int width, char padChar, bool uppercase)
appendHexInternal(buffer, maxLen, curLen, uval, width, padChar, uppercase) ==
    LET digitsCount == IF uval = 0 THEN 1 ELSE HexDigitsCount(uval)
        totalLen == IF digitsCount > width THEN digitsCount ELSE width
        startIdx == curLen
        writeIdx == curLen + totalLen
    IN  IF curLen + totalLen >= maxLen
        THEN [buf |-> buffer, len |-> curLen, fault |-> FALSE]
        ELSE [buf |-> StorePad(StoreHex(Store(buffer, writeIdx, 0), writeIdx, uval,
                                        digitsCount, uppercase),
                               startIdx, writeIdx - digitsCount, padChar),
              len |-> writeIdx, fault |-> FALSE]

\* while (isDigit(*p)) { if (width < 100) width = width * 10 + (c - '0'); p++; }
RECURSIVE parseWidth(_, _, _)
parseWidth(format, p, width) ==
    IF isDigit(Rd(format, p))
    THEN parseWidth(format, p + 1,
                    IF width < 100 THEN width * 10 + (Rd(format, p) - 48) ELSE width)
    ELSE [p |-> p, width |-> width]

\* while (isDigit(*p)) { precision = precision * 10 + (c - '0'); p++; }
RECURSIVE parsePrecision(_, _, _)
parsePrecision(format, p, precision) ==
    IF isDigit(Rd(format, p))
    THEN parsePrecision(format, p + 1, precision * 10 + (Rd(format, p) - 48))
    ELSE [p |-> p, precision |-> precision]

\* the result of append as [buf, len, fault]
Appended(r) == [buf |-> r.buf, len |-> r.len, fault |-> FALSE]

NullText == <<40, 110, 117, 108, 108, 41>>

\* switch (*p) { ... }: the conversion at p; step is what the case adds to p,
\* took the number of arguments it reads
appendVerb(buffer, maxLen, curLen, format, p, arg, width, padChar, precision) ==
    LET c == Rd(format, p)
        c1 == Rd(format, p + 1)
        one(r, took) == [r |-> r, step |-> 0, took |-> took]
        two(r) == [r |-> r, step |-> 1, took |-> 1]
    IN  IF c = 115
        THEN LET src == IF arg.text = NULL THEN NullText ELSE arg.text
             IN  one(Appended(append(buffer, maxLen, curLen, src, Len(src))), 1)
        ELSE IF c = 100
        THEN one(appendInt(buffer, maxLen, curLen, arg.int, width, padChar), 1)
        ELSE IF c = 117
        THEN one(appendUIntInternal(buffer, maxLen, curLen, Wide(arg.uns), width, padChar), 1)
        ELSE IF c = 120
        THEN one(appendHexInternal(buffer, maxLen, curLen, arg.uns, width, padChar, FALSE), 1)
        ELSE IF c = 88
        THEN one(appendHexInternal(buffer, maxLen, curLen, arg.uns, width, padChar, TRUE), 1)
        ELSE IF c = 108
        THEN IF c1 = 100
             THEN two(appendInt(buffer, maxLen, curLen, arg.long, width, padChar))
             ELSE IF c1 = 117
             THEN two(appendUIntInternal(buffer, maxLen, curLen, Wide(arg.uns), width, padChar))
             ELSE IF c1 = 120
             THEN two(appendHexInternal(buffer, maxLen, curLen, arg.uns, width, padChar, FALSE))
             ELSE IF c1 = 88
             THEN two(appendHexInternal(buffer, maxLen, curLen, arg.uns, width, padChar, TRUE))
             ELSE one([buf |-> buffer, len |-> curLen, fault |-> FALSE], 0)
        ELSE IF c = 102
        THEN one(appendFloat(buffer, maxLen, curLen, arg.dbl,
                             IF precision >= 0 THEN precision ELSE 2), 1)
        ELSE IF c = 99
        THEN one(Appended(append(buffer, maxLen, curLen, <<arg.chr>>, 1)), 1)
        ELSE IF c = 37
        THEN one(Appended(append(buffer, maxLen, curLen, <<37>>, 1)), 0)
        ELSE LET pct == append(buffer, maxLen, curLen, <<37>>, 1)
             IN  one(Appended(append(pct.buf, maxLen, pct.len, <<c>>, 1)), 0)

RECURSIVE appendPrintfLoop(_, _, _, _, _, _, _)

\* the end of a round after the conversion at p gave v: p++ and the next round
\* (a conversion that does not return ends the call)
appendPrintfNext(v, maxLen, format, p, args, used) ==
    IF v.r.fault
    THEN [buf |-> v.r.buf, len |-> v.r.len, fault |-> TRUE,
          p |-> p + v.step, used |-> used + v.took]
    ELSE appendPrintfLoop(v.r.buf, maxLen, v.r.len, format, p + v.step + 1, args, used + v.took)

\* 4. the conversion, with the width w and the precision pr parsed
appendPrintfType(buffer, maxLen, curLen, format, w, pr, padChar, args, used) ==
    appendPrintfNext(appendVerb(buffer, maxLen, curLen, format, pr.p, args[used + 1],
                                w.width, padChar, pr.precision),
                     maxLen, format, pr.p, args, used)

\* 3. the precision, with the width w parsed
appendPrintfPrecision(buffer, maxLen, curLen, format, w, padChar, args, used) ==
    appendPrintfType(buffer, maxLen, curLen, format, w,
                     IF Rd(format, w.p) = 46
                     THEN parsePrecision(format, w.p + 1, 0)
                     ELSE [p |-> w.p, precision |-> -1],
                     padChar, args, used)

\* p stands on '%': if (*(p + 1)) { p++; 1. the flag, 2. the width, ... } p++
appendPrintfPercent(buffer, maxLen, curLen, format, p, args, used) ==
    IF Rd(format, p + 1) = 0
    THEN appendPrintfLoop(buffer, maxLen, curLen, format, p + 1, args, used)
    ELSE IF Rd(format, p + 1) = 48
    THEN appendPrintfPrecision(buffer, maxLen, curLen, format,
                               parseWidth(format, p + 2, 0), 48, args, used)
    ELSE appendPrintfPrecision(buffer, maxLen, curLen, format,
                               parseWidth(format, p + 1, 0), 32, args, used)

\* the literal run of literalLen bytes at p appended as lit
appendPrintfLiteral(lit, maxLen, format, p, literalLen, args, used) ==
    IF Rd(format, p + literalLen) = 0
    THEN [buf |-> lit.buf, len |-> lit.len, fault |-> FALSE, p |-> p + literalLen,
          used |-> used]
    ELSE appendPrintfPercent(lit.buf, maxLen, lit.len, format, p + literalLen, args, used)

\* one round with nextPercent = strchr(p, '%')
appendPrintfRound(buffer, maxLen, curLen, format, p, nextPercent, args, used) ==
    IF nextPercent = p
    THEN appendPrintfPercent(buffer, maxLen, curLen, format, p, args, used)
    ELSE IF nextPercent # NotFound
    THEN appendPrintfLiteral(append(buffer, maxLen, curLen,
                                    Bytes(format, p, nextPercent - p), nextPercent - p),
                             maxLen, format, p, nextPercent - p, args, used)
    ELSE appendPrintfLiteral(append(buffer, maxLen, curLen,
                                    CStr(format, p), strlen(format, p) - p),
                             maxLen, format, p, strlen(format, p) - p, args, used)

\* while (*p) { ... } of appendPrintf
appendPrintfLoop(buffer, maxLen, curLen, format, p, args, used) ==
    IF Rd(format, p) = 0
    THEN [buf |-> buffer, len |-> curLen, fault |-> FALSE, p |-> p, used |-> used]
    ELSE appendPrintfRound(buffer, maxLen, curLen, format, p, strchr(format, p, 37),
                           args, used)

\* int appendPrintf(char* buffer, size_t maxLen, size_t& curLen,
\*                  const char* format, va_list args)
appendPrintf(buffer, maxLen, curLen, format, args) ==
    IF format = NULL
    THEN [buf |-> buffer, len |-> curLen, fault |-> FALSE, p |-> 0, used |-> 0]
    ELSE appendPrintfLoop(buffer, maxLen, curLen, format, 0, args, 0)

-----------------------------------------------------------------------------
(* toInt.  The long long accumulator is a wide number; the cast to int      *)
(* keeps its low 32 bits, held as two 16-bit halves.                         *)

\* val * 10 + d
WideMul10Add(val, d) == IF val = <<0>> THEN <<d>> ELSE Append(val, d)

\* a <= b for wide numbers
RECURSIVE WideLE(_, _)
WideLE(a, b) ==
    IF Len(a) # Len(b) THEN Len(a) < Len(b)
    ELSE IF a = <<>> THEN TRUE
    ELSE IF a[1] # b[1] THEN a[1] < b[1]
    ELSE WideLE(Tail(a), Tail(b))

\* the low 32 bits of a wide number
RECURSIVE Low32(_, _)
Low32(val, acc) ==
    IF val = <<>> THEN acc
    ELSE LET lo == acc.lo * 10 + val[1]
             hi == acc.hi * 10 + lo \div 65536
         IN  Low32(Tail(val), [hi |-> hi % 65536, lo |-> lo % 65536])

\* the low 32 bits of -x
Neg32(x) ==
    IF x.lo = 0
    THEN [hi |-> (65536 - x.hi) % 65536, lo |-> 0]
    ELSE [hi |-> 65535 - x.hi, lo |-> 65536 - x.lo]

\* 32 bits read as a two's-complement int
Int32(x) == IF x.hi >= 32768 THEN (x.hi - 65536) * 65536 + x.lo ELSE x.hi * 65536 + x.lo

\* static_cast<int>(val * sign)
CastInt(val, sign) ==
    LET x == Low32(val, [hi |-> 0, lo |-> 0])
    IN  Int32(IF sign = -1 THEN Neg32(x) ELSE x)

\* while (i < len && isSpace(str[i])) i++
RECURSIVE toIntSkip(_, _, _)
toIntSkip(str, len, i) ==
    IF i < len /\ isSpace(CAt(str, i)) THEN toIntSkip(str, len, i + 1) ELSE i

\* while (i < len && isDigit(str[i])) { val = val * 10 + (c - '0'); i++; }
RECURSIVE toIntDigits(_, _, _, _)
toIntDigits(str, len, i, val) ==
    IF i < len /\ isDigit(CAt(str, i))
    THEN toIntDigits(str, len, i + 1, WideMul10Add(val, CAt(str, i) - 48))
    ELSE val

\* the accumulator of toInt(str, len) after the digit loop
toIntValue(str, len) ==
    LET i == toIntSkip(str, len, 0)
        j == IF CAt(str, i) = 45 \/ CAt(str, i) = 43 THEN i + 1 ELSE i
    IN  toIntDigits(str, len, j, <<0>>)

\* int toInt(const char* str, size_t len)
toIntLen(str, len) ==
    IF str = NULL \/ len = 0 THEN 0
    ELSE LET i == toIntSkip(str, len, 0)
             sign == IF CAt(str, i) = 45 THEN -1 ELSE 1
         IN  IF i = len THEN 0
             ELSE CastInt(toIntValue(str, len), sign)

\* int toInt(const char* str)
toInt(str) ==
    IF str = NULL \/ CAt(str, 0) = 0 THEN 0 ELSE toIntLen(str, Len(str))

-----------------------------------------------------------------------------
(* remove, trim, replace.  A memmove whose size_t count has wrapped below   *)
(* zero does not return: the result carries fault = TRUE and the memory is  *)
(* left as it was.                                                           *)

\* size_t remove(char* buffer, size_t curLen, size_t charIdx, size_t charCount)
remove(buffer, curLen, charIdx, charCount) ==
    LET startOffset == findUtf8CharStart(buffer, 0, charIdx)
        endOffset == findUtf8CharStart(buffer, 0, charIdx + charCount)
        tailLen == curLen - endOffset
    IN  IF Rd(buffer, startOffset) = 0
        THEN [buf |-> buffer, len |-> curLen, fault |-> FALSE]
        ELSE IF tailLen + 1 < 0
        THEN [buf |-> buffer, len |-> curLen, fault |-> TRUE]
        ELSE [buf |-> Memmove(buffer, startOffset, endOffset, tailLen + 1),
              len |-> curLen - (endOffset - startOffset), fault |-> FALSE]

\* while (*start && isSpace(*start)) start++
RECURSIVE TrimStart(_, _)
TrimStart(str, start) ==
    IF Rd(str, start) # 0 /\ isSpace(Rd(str, start)) THEN TrimStart(str, start + 1) ELSE start

\* while (end > start && isSpace(*end)) { *end = '\0'; end--; }
RECURSIVE TrimEnd(_, _, _)
TrimEnd(str, start, end) ==
    IF end > start /\ isSpace(Rd(str, end))
    THEN TrimEnd(Store(str, end, 0), start, end - 1)
    ELSE [buf |-> str, end |-> end]

\* size_t trim(char* str)
trim(str) ==
    IF Rd(str, 0) = 0
    THEN [buf |-> str, len |-> 0]
    ELSE LET len == strlen(str, 0)
             start == TrimStart(str, 0)
         IN  IF Rd(str, start) = 0
             THEN [buf |-> Store(str, 0, 0), len |-> 0]
             ELSE LET t == TrimEnd(str, start, len - 1)
                      newLen == (t.end - start) + 1
                  IN  [buf |-> IF start # 0 THEN Memmove(t.buf, 0, start, newLen + 1) ELSE t.buf,
                       len |-> newLen]

\* the loop resuming the scan behind the pattern's length, not the replacement's
RECURSIVE replaceLoop_ResumeAfterFromLen(_, _, _, _, _, _, _)
replaceLoop_ResumeAfterFromLen(str, maxLen, currentLen, p, from, to, ignoreCase) ==
    LET fromLen == Len(from)
        toLen == Len(to)
        q == IF ignoreCase THEN strcasestr(str, p, from)
             ELSE IF fromLen = 1 THEN strchr(str, p, CAt(from, 0))
             ELSE strstr(str, p, from)
        count == currentLen - (q + fromLen) + 1
    IN  IF q = NotFound
        THEN [buf |-> str, len |-> currentLen, truncated |-> FALSE, fault |-> FALSE]
        ELSE IF toLen > fromLen /\ currentLen + (toLen - fromLen) >= maxLen
        THEN [buf |-> str, len |-> currentLen, truncated |-> TRUE, fault |-> FALSE]
        ELSE IF toLen # fromLen /\ count < 0
        THEN [buf |-> str, len |-> currentLen, truncated |-> FALSE, fault |-> TRUE]
        ELSE LET moved == IF toLen # fromLen
                          THEN Memmove(str, q + toLen, q + fromLen, count)
                          ELSE str
             IN  replaceLoop_ResumeAfterFromLen(MemcpySeq(moved, q, to, toLen), maxLen,
                             currentLen + toLen - fromLen, q + fromLen, from, to, ignoreCase)

\* the loop letting a grown content reach maxLen
RECURSIVE replaceLoop_FillsToMaxLen(_, _, _, _, _, _, _)
replaceLoop_FillsToMaxLen(str, maxLen, currentLen, p, from, to, ignoreCase) ==
    LET fromLen == Len(from)
        toLen == Len(to)
        q == IF ignoreCase THEN strcasestr(str, p, from)
             ELSE IF fromLen = 1 THEN strchr(str, p, CAt(from, 0))
             ELSE strstr(str, p, from)
        count == currentLen - (q + fromLen) + 1
    IN  IF q = NotFound
        THEN [buf |-> str, len |-> currentLen, truncated |-> FALSE, fault |-> FALSE]
        ELSE IF toLen > fromLen /\ currentLen + (toLen - fromLen) > maxLen
        THEN [buf |-> str, len |-> currentLen, truncated |-> TRUE, fault |-> FALSE]
        ELSE IF toLen # fromLen /\ count < 0
        THEN [buf |-> str, len |-> currentLen, truncated |-> FALSE, fault |-> TRUE]
        ELSE LET moved == IF toLen # fromLen
                          THEN Memmove(str, q + toLen, q + fromLen, count)
                          ELSE str
             IN  replaceLoop_FillsToMaxLen(MemcpySeq(moved, q, to, toLen), maxLen,
                             currentLen + toLen - fromLen, q + toLen, from, to, ignoreCase)

\* while (true) { ... } of replace
RECURSIVE replaceLoop(_, _, _, _, _, _, _)
replaceLoop(str, maxLen, currentLen, p, from, to, ignoreCase) ==
    LET fromLen == Len(from)
        toLen == Len(to)
        q == IF ignoreCase THEN strcasestr(str, p, from)
             ELSE IF fromLen = 1 THEN strchr(str, p, CAt(from, 0))
             ELSE strstr(str, p, from)
        count == currentLen - (q + fromLen) + 1
    IN  IF q = NotFound
        THEN [buf |-> str, len |-> currentLen, truncated |-> FALSE, fault |-> FALSE]
        ELSE IF toLen > fromLen /\ currentLen + (toLen - fromLen) >= maxLen
        THEN [buf |-> str, len |-> currentLen, truncated |-> TRUE, fault |-> FALSE]
        ELSE IF toLen # fromLen /\ count < 0
        THEN [buf |-> str, len |-> currentLen, truncated |-> FALSE, fault |-> TRUE]
        ELSE LET moved == IF toLen # fromLen
                          THEN Memmove(str, q + toLen, q + fromLen, count)
                          ELSE str
             IN  replaceLoop(MemcpySeq(moved, q, to, toLen), maxLen,
                             currentLen + toLen - fromLen, q + toLen, from, to, ignoreCase)

\* size_t replace(char* str, size_t maxLen, size_t curLen, const char* from,
\*                const char* to, bool ignoreCase)
replace(str, maxLen, curLen, from, to, ignoreCase) ==
    IF from = NULL \/ to = NULL \/ CAt(from, 0) = 0
    THEN [buf |-> str, len |-> curLen, fault |-> FALSE]
    ELSE LET r == replaceLoop(str, maxLen, curLen, 0, from, to, ignoreCase)
         IN  IF r.fault THEN [buf |-> r.buf, len |-> r.len, fault |-> TRUE]
             ELSE IF r.truncated
             THEN LET z == sanitizeUtf8(r.buf, maxLen)
                  IN  [buf |-> z.buf, len |-> z.len, fault |-> FALSE]
             ELSE [buf |-> r.buf, len |-> r.len, fault |-> FALSE]

-----------------------------------------------------------------------------
(* StringBase: the facade's state is the record [buf, len, peak] over a    *)
(* fixed capacity cap.                                                      *)

\* StringBase::updatePeak (declared in cmsStringBase.h, compiled with profiling)
updatePeak(o) == [o EXCEPT !.peak = IF o.len > o.peak THEN o.len ELSE o.peak]

\* void StringBase::append(const char* s, size_t len)
StringBase_append(o, cap, s, n) ==
    IF s = NULL \/ n = 0 \/ cap <= 1
    THEN o
    ELSE LET available == IF o.len < cap - 1 THEN cap - 1 - o.len ELSE 0
             toCopy == IF n < available THEN n ELSE available
         IN  IF toCopy > 0
             THEN updatePeak([o EXCEPT
                      !.buf = Store(MemcpySeq(o.buf, o.len, s, toCopy), o.len + toCopy, 0),
                      !.len = o.len + toCopy])
             ELSE o

\* void StringBase::clear()
StringBase_clear(o, cap) ==
    IF cap > 0 THEN [o EXCEPT !.buf = Store(o.buf, 0, 0), !.len = 0] ELSE o

\* StringBase& StringBase::operator=(const char* src)
StringBase_assign(o, cap, src) ==
    LET c == StringBase_clear(o, cap)
    IN  IF src # NULL THEN StringBase_append(c, cap, src, Len(src)) ELSE c

\* void StringBase::trim()
StringBase_trim(o) ==
    LET r == trim(o.buf) IN updatePeak([o EXCEPT !.buf = r.buf, !.len = r.len])

\* replace that leaves the high-water mark as it was
StringBase_replace_NoPeak(o, cap, from, to, ignoreCase) ==
    LET r == replace(o.buf, cap, o.len, from, to, ignoreCase)
    IN  [o EXCEPT !.buf = r.buf, !.len = r.len, !.fault = r.fault]

\* void StringBase::replace(const char* from, const char* to, bool ignoreCase)
StringBase_replace(o, cap, from, to, ignoreCase) ==
    LET r == replace(o.buf, cap, o.len, from, to, ignoreCase)
    IN  updatePeak([o EXCEPT !.buf = r.buf, !.len = r.len, !.fault = r.fault])

\* void StringBase::appendInt(long val, int width, char padChar)
StringBase_appendInt(o, cap, val, width, padChar) ==
    LET r == appendInt(o.buf, cap, o.len, val, width, padChar)
    IN  updatePeak([o EXCEPT !.buf = r.buf, !.len = r.len, !.fault = r.fault])

\* void StringBase::appendFloat(float val, int decimalPlaces)
StringBase_appendFloat(o, cap, val, decimalPlaces) ==
    LET r == appendFloat(o.buf, cap, o.len, val, decimalPlaces)
    IN  updatePeak([o EXCEPT !.buf = r.buf, !.len = r.len, !.fault = r.fault])

\* void StringBase::sanitize()
StringBase_sanitize(o, cap) ==
    LET r == sanitizeUtf8(o.buf, cap) IN updatePeak([o EXCEPT !.buf = r.buf, !.len = r.len])

\* insert that leaves out the repair of a filled buffer
StringBase_insert_NoRepair(o, cap, charIdx, src) ==
    IF src = NULL \/ CAt(src, 0) = 0
    THEN o
    ELSE LET r == insert(o.buf, cap, o.len, charIdx, src)
         IN  updatePeak([o EXCEPT !.buf = r.buf, !.len = r.len])

\* void StringBase::insert(size_t charIdx, const char* src)
StringBase_insert(o, cap, charIdx, src) ==
    IF src = NULL \/ CAt(src, 0) = 0
    THEN o
    ELSE LET r == insert(o.buf, cap, o.len, charIdx, src)
             p == updatePeak([o EXCEPT !.buf = r.buf, !.len = r.len])
         IN  IF p.len >= cap - 1 THEN StringBase_sanitize(p, cap) ELSE p

\* void StringBase::remove(size_t charIdx, size_t charCount)
StringBase_remove(o, charIdx, charCount) ==
    IF charCount = 0
    THEN o
    ELSE LET r == remove(o.buf, o.len, charIdx, charCount)
         IN  IF r.fault \/ r.len < 0
             THEN [o EXCEPT !.fault = TRUE]
             ELSE [o EXCEPT !.buf = r.buf, !.len = r.len]

-----------------------------------------------------------------------------
(* Engine harness: a (buffer, capacity, length) triple that append and     *)
(* insert are called on, with any arguments, a bounded number of times.    *)

MaxCap == 8
Guard == 3
MaxCalls == 2

Hello == <<104, 101, 108, 108, 111>>
World == <<119, 111, 114, 108, 100>>
EAcute == <<195, 169>>
Euro == <<226, 130, 172>>

\* contents a caller may hold in the buffer before the call (bytes 0..len-1)
EngContents ==
    { <<>>, <<97>>, <<97, 98, 99>>, EAcute \o <<98>>, <<97>> \o Euro, Euro \o EAcute,
      <<97, 0, 98>>, <<97, 98, 99, 100, 101, 102>> }

EngSrcs == { <<>>, <<120>>, Hello, World, EAcute, Euro, NULL }

EngFill == { 0, 122 }

NoCall == [op |-> "none"]

EngInit ==
    /\ pc = 0
    /\ \E c \in EngContents, cap \in 1..MaxCap, fill \in EngFill :
          /\ Len(c) <= cap - 1
          /\ in = [buf |-> MemOf(c, cap + Guard, fill), maxLen |-> cap, curLen |-> Len(c)]
    /\ out = NoCall
    /\ _buf = <<>> /\ _capacity = 0 /\ _len = 0 /\ _maxLenSeen = 0 /\ lastOp = NoCall

CallRecord(op, src, srcLen, charIdx, r) ==
    [op |-> op, src |-> src, srcLen |-> srcLen, charIdx |-> charIdx,
     oldBuf |-> in.buf, oldLen |-> in.curLen, wr |-> r.wr]

EngAppend ==
    /\ pc < MaxCalls
    /\ \E src \in EngSrcs :
         \E n \in (IF src = NULL THEN {1} ELSE 0..Len(src)) :
           LET r == append(in.buf, in.maxLen, in.curLen, src, n)
           IN  /\ in' = [in EXCEPT !.buf = r.buf, !.curLen = r.len]
               /\ out' = CallRecord("append", src, n, 0, r)
    /\ pc' = pc + 1
    /\ UNCHANGED facadeVars

EngFacadeAppend ==
    /\ pc < MaxCalls
    /\ \E src \in EngSrcs :
         \E n \in (IF src = NULL THEN {1} ELSE 0..Len(src)) :
           LET o == [buf |-> in.buf, len |-> in.curLen, peak |-> in.curLen]
               r == StringBase_append(o, in.maxLen, src, n)
           IN  /\ in' = [in EXCEPT !.buf = r.buf, !.curLen = r.len]
               /\ out' = CallRecord("StringBase::append", src, n, 0,
                                    [wr |-> {i \in DOMAIN r.buf : r.buf[i] # o.buf[i]}])
    /\ pc' = pc + 1
    /\ UNCHANGED facadeVars

EngInsert ==
    /\ pc < MaxCalls
    /\ \E src \in EngSrcs, charIdx \in 0..4 :
           LET r == insert(in.buf, in.maxLen, in.curLen, charIdx, src)
           IN  /\ in' = [in EXCEPT !.buf = r.buf, !.curLen = r.len]
               /\ out' = CallRecord("insert", src, IF src = NULL THEN 0 ELSE Len(src), charIdx, r)
    /\ pc' = pc + 1
    /\ UNCHANGED facadeVars

EngNext == EngAppend \/ EngFacadeAppend \/ EngInsert

SpecEngine == EngInit /\ [][EngNext]_vars

-----------------------------------------------------------------------------
(* C2 and C3 *)

C3_AppendCopiesMin ==
    (out.op \in {"append", "StringBase::append"} /\ out.src # NULL) =>
        LET k == Min(out.srcLen, in.maxLen - 1 - out.oldLen)
        IN  /\ in.curLen = out.oldLen + k
            /\ Bytes(in.buf, 0, in.curLen) = Bytes(out.oldBuf, 0, out.oldLen) \o SubSeq(out.src, 1, k)
            /\ in.buf[in.curLen] = 0

\* capacity 8: "hello" appended, then "world": content "hellowo", length 7
C3_Witness ==
    /\ pc = 2
    /\ out.op = "append" /\ out.src = World /\ out.srcLen = 5
    /\ in.maxLen = 8 /\ out.oldLen = 5
    /\ Bytes(out.oldBuf, 0, 5) = Hello
    /\ in.curLen = 7
    /\ Bytes(in.buf, 0, 7) = <<104, 101, 108, 108, 111, 119, 111>>

-----------------------------------------------------------------------------
(* Sanitize harness: sanitizeUtf8 applied to a terminated string, then     *)
(* applied again to its own result.                                        *)

MaxSanLen == 3
MaxSanUnits == 2
MaxSanCap == 10

\* one byte of each class the branches of validateUtf8/sanitizeUtf8 tell apart
SanBytes == {65, 128, 191, 195, 224, 237, 239, 240, 244}

\* whole sequences, well-formed and not, to build longer inputs from
SanUnits ==
    { <<65>>, <<195, 128>>, <<226, 130, 172>>, replacement, <<224, 191, 128>>,
      <<237, 128, 128>>, <<240, 191, 128, 128>>, <<244, 128, 128, 128>>,
      <<128>>, <<195>>, <<224, 128>>, <<237, 191, 128>>, <<226, 130>>, <<192>>, <<63>> }

SanInputs ==
    SeqsUpTo(SanBytes, MaxSanLen)
        \cup {Flatten(us) : us \in SeqsUpTo(SanUnits, MaxSanUnits)}

SanInit ==
    /\ pc = 0
    /\ \E s \in SanInputs, cap \in 0..MaxSanCap, fill \in EngFill :
          in = [buf |-> MemOf(s, Max(cap, Len(s) + 1) + Guard, fill),
                maxLen |-> cap, content |-> s]
    /\ out = NoCall
    /\ _buf = <<>> /\ _capacity = 0 /\ _len = 0 /\ _maxLenSeen = 0 /\ lastOp = NoCall

Sanitize ==
    /\ pc = 0
    /\ LET r == sanitizeUtf8(in.buf, in.maxLen)
       IN  /\ in' = [in EXCEPT !.buf = r.buf]
           /\ out' = [op |-> "sanitize", oldBuf |-> in.buf, len |-> r.len]
    /\ pc' = 1
    /\ UNCHANGED facadeVars

SanitizeAgain ==
    /\ pc = 1
    /\ LET r == sanitizeUtf8(in.buf, in.maxLen)
       IN  /\ in' = [in EXCEPT !.buf = r.buf]
           /\ out' = [op |-> "sanitize again", oldBuf |-> in.buf, oldLen |-> out.len, len |-> r.len]
    /\ pc' = 2
    /\ UNCHANGED facadeVars

SanNext == Sanitize \/ SanitizeAgain

SpecSanitize == SanInit /\ [][SanNext]_vars

\* Well-formed UTF-8 after the Unicode standard (table 3-7): the length of the
\* well-formed sequence that s starts with, or 0.
WellFormedLen(s) ==
    LET b(i) == IF i <= Len(s) THEN s[i] ELSE 0
        tail(i) == b(i) \in 128..191
    IN  IF b(1) \in 1..127 THEN 1
        ELSE IF b(1) \in 194..223 /\ tail(2) THEN 2
        ELSE IF b(1) = 224 /\ b(2) \in 160..191 /\ tail(3) THEN 3
        ELSE IF b(1) \in (225..236) \cup (238..239) /\ tail(2) /\ tail(3) THEN 3
        ELSE IF b(1) = 237 /\ b(2) \in 128..159 /\ tail(3) THEN 3
        ELSE IF b(1) = 240 /\ b(2) \in 144..191 /\ tail(3) /\ tail(4) THEN 4
        ELSE IF b(1) \in 241..243 /\ tail(2) /\ tail(3) /\ tail(4) THEN 4
        ELSE IF b(1) = 244 /\ b(2) \in 128..143 /\ tail(3) /\ tail(4) THEN 4
        ELSE 0

RECURSIVE WellFormed(_)
WellFormed(s) ==
    \/ s = <<>>
    \/ /\ WellFormedLen(s) > 0
       /\ WellFormed(SubSeq(s, WellFormedLen(s) + 1, Len(s)))

\* The repair the specification describes: well-formed sequences unchanged
\* and in order, every other byte replaced by one U+FFFD.
RECURSIVE Repaired(_)
Repaired(s) ==
    IF s = <<>> THEN <<>>
    ELSE IF WellFormedLen(s) > 0
         THEN SubSeq(s, 1, WellFormedLen(s)) \o Repaired(SubSeq(s, WellFormedLen(s) + 1, Len(s)))
         ELSE replacement \o Repaired(Tail(s))

\* C4: when the capacity leaves room for it, sanitize leaves exactly the
\* repaired string: each invalid byte replaced by one U+FFFD, every valid
\* sequence copied unchanged and in order; on {0x41, 0xC3} the result is
\* "A" U+FFFD for every capacity >= 5.
C4_SanitizeReplacesEachInvalidByte ==
    (pc = 1 /\ in.maxLen >= Len(Repaired(in.content)) + 1) =>
        /\ out.len = Len(Repaired(in.content))
        /\ Bytes(in.buf, 0, out.len) = Repaired(in.content)

\* C5: sanitize is idempotent: the second application leaves the memory and
\* the returned length as the first application left them.
C5_SanitizeIdempotent ==
    pc = 2 => (in.buf = out.oldBuf /\ out.len = out.oldLen)

\* the first application repaired something and ran out of room doing so
C5_Witness ==
    /\ pc = 2
    /\ Bytes(out.oldBuf, 0, out.oldLen) # in.content
    /\ Len(Repaired(in.content)) > in.maxLen - 1
    /\ out.len > 0

\* C6: for every capacity >= 1 the string sanitize leaves is accepted by
\* validate, and the returned length is the offset of its terminator and is
\* at most capacity-1.
C6_SanitizeOutputValid ==
    (pc >= 1 /\ in.maxLen >= 1) =>
        /\ validateUtf8(in.buf)
        /\ out.len <= in.maxLen - 1
        /\ in.buf[out.len] = 0
        /\ strlen(in.buf, 0) = out.len

\* an ill-formed input that did not fit was repaired with '?' and cut short
C6_Witness ==
    /\ pc = 1
    /\ ~WellFormed(in.content)
    /\ Len(in.content) > in.maxLen - 1
    /\ in.maxLen >= 2
    /\ \E i \in 0..(out.len - 1) : in.buf[i] = 63 /\ out.oldBuf[i] # 63

-----------------------------------------------------------------------------
(* Search harness: one call of strcasestr or find on a drawn haystack and  *)
(* pattern.                                                                  *)

MaxHay == 5
MaxNeedle == 3
MaxUnits == 3
MaxStart == 2

RECURSIVE Rep(_, _)
Rep(s, n) == IF n <= 0 THEN <<>> ELSE s \o Rep(s, n - 1)

\* plain ASCII with both cases, where occurrences overlap
AsciiHays == SeqsUpTo({97, 65, 98}, MaxHay)
AsciiNeedles == SeqsUpTo({97, 66}, MaxNeedle) \ {<<>>}

\* well-formed UTF-8: one-, two- and three-byte characters
Utf8Units == {<<97>>, <<66>>, EAcute, Euro}
Utf8Hays == {Flatten(u) : u \in SeqsUpTo(Utf8Units, MaxUnits)}
Utf8Needles == {Flatten(u) : u \in SeqsUpTo(Utf8Units, 2)} \ {<<>>}

\* patterns on both sides of KmpMaxPattern, in haystacks that hold them late
LongNeedles == {Rep(<<97>>, n - 1) \o x : n \in {KmpMaxPattern, KmpMaxPattern + 1},
                                         x \in {<<97>>, <<98>>}}
LongHays == {pre \o Rep(<<65>>, n - 1) \o x \o post :
                 pre \in {<<>>, <<97>>, <<97, 97>>},
                 n \in {KmpMaxPattern - 1, KmpMaxPattern, KmpMaxPattern + 1},
                 x \in {<<97>>, <<66>>},
                 post \in {<<>>, <<98>>}}

SearchInputs ==
    {[hay |-> h, needle |-> n] : h \in AsciiHays, n \in AsciiNeedles}
    \cup {[hay |-> h, needle |-> n] : h \in Utf8Hays, n \in Utf8Needles}
    \cup {[hay |-> h, needle |-> n] : h \in LongHays, n \in LongNeedles}

SearchInit ==
    /\ pc = 0
    /\ in \in SearchInputs
    /\ out = NoCall
    /\ _buf = <<>> /\ _capacity = 0 /\ _len = 0 /\ _maxLenSeen = 0 /\ lastOp = NoCall

HayMem == MemOf(in.hay, Len(in.hay) + 1, 0)

Strcasestr ==
    /\ pc = 0
    /\ pc' = 1
    /\ out' = [op |-> "strcasestr", r |-> strcasestr(HayMem, 0, in.needle)]
    /\ UNCHANGED <<in, facadeVars>>

\* StringBase::find(target, startChar, ignoreCase) on a buffer holding in.hay
Find ==
    /\ pc = 0
    /\ \E startChar \in 0..MaxStart, ignoreCase \in BOOLEAN :
          /\ pc' = 1
          /\ out' = [op |-> "find", startChar |-> startChar, ignoreCase |-> ignoreCase,
                     r |-> find(HayMem, Len(in.hay), in.needle, Len(in.needle),
                                startChar, ignoreCase)]
    /\ UNCHANGED <<in, facadeVars>>

SearchNext == Strcasestr \/ Find

SpecSearch == SearchInit /\ [][SearchNext]_vars

\* ASCII-only case folding of the reference scanner
Fold(c) == IF c \in 65..90 THEN c + 32 ELSE c

\* does t occur in h at byte offset i (0-based), with or without folding
OccursAt(h, t, i, fold) ==
    /\ i + Len(t) <= Len(h)
    /\ \A k \in 1..Len(t) :
          IF fold THEN Fold(h[i + k]) = Fold(t[k]) ELSE h[i + k] = t[k]

\* the reference scanner: every start offset, left to right
RECURSIVE NaiveScan(_, _, _)
NaiveScan(h, t, i) ==
    IF i + Len(t) > Len(h) THEN NotFound
    ELSE IF OccursAt(h, t, i, TRUE) THEN i
    ELSE NaiveScan(h, t, i + 1)

\* C9: strcasestr returns the position the naive left-to-right scanner with
\* ASCII-only case folding returns, for patterns up to KmpMaxPattern bytes
\* (partial-match table) and beyond (fallback), overlapping occurrences included.
C9_StrcasestrMatchesNaive ==
    (pc = 1 /\ out.op = "strcasestr") => out.r = NaiveScan(in.hay, in.needle, 0)

\* a pattern longer than the table, found after a partial match was abandoned
C9_Witness ==
    /\ pc = 1 /\ out.op = "strcasestr"
    /\ Len(in.needle) > KmpMaxPattern
    /\ out.r = 2

\* byte offsets at which the characters of h start, in order
CharStarts(h) == SelectSeq([i \in 1..Len(h) |-> i - 1], LAMBDA o : ~IsCont(h[o + 1]))

\* does t occur in h at the offset of logical character c
OccursAtChar(h, t, c, fold) ==
    /\ c < Len(CharStarts(h))
    /\ OccursAt(h, t, CharStarts(h)[c + 1], fold)

\* C10: on a well-formed buffer with a well-formed non-empty target, find
\* returns the first logical character index r >= startChar at which the target
\* occurs, and -1 exactly when it occurs at no character index >= startChar.
C10_FindReturnsCharIndex ==
    (pc = 1 /\ out.op = "find" /\ WellFormed(in.hay) /\ WellFormed(in.needle)) =>
        LET chars == Len(CharStarts(in.hay))
            occ(c) == OccursAtChar(in.hay, in.needle, c, out.ignoreCase)
        IN  /\ out.r # -1 =>
                 /\ out.r >= out.startChar
                 /\ occ(out.r)
                 /\ \A c \in out.startChar..(out.r - 1) : ~occ(c)
            /\ out.r = -1 <=> ~\E c \in out.startChar..(chars - 1) : occ(c)

\* a match behind a multi-byte character: the index counts characters
C10_Witness ==
    /\ pc = 1 /\ out.op = "find"
    /\ in.hay = EAcute \o Euro \o <<97>> /\ in.needle = <<97>>
    /\ out.startChar = 1 /\ out.r = 2

-----------------------------------------------------------------------------
(* The facade: one StringBase over an injected buffer of _capacity bytes,   *)
(* followed in memory by Guard bytes that are not its own.  pc counts the   *)
(* calls made.                                                               *)

MaxFacCap == 8
MaxFacUnits == 2
MaxOps == 2

FacUnits == {<<97>>, <<32>>, EAcute, Euro}
FacContents == {Flatten(u) : u \in SeqsUpTo(FacUnits, MaxFacUnits)} \cup {<<97, 98, 99, 100, 101>>}
FacSrcs == {<<>>, <<120>>, <<32, 120, 121>>, EAcute, Euro, <<195>>, NULL}
FacInts == {Long(0), Long(-7), Long(42), Long(-1234567)}
\* -1.5, 0.25, 2.5 and 123.5 in millionths: values a float holds exactly
FacFloats == {Double(-1500000), Double(250000), Double(2500000), Double(123500000)}
FacWidths == {0, 3}
FacDecimals == {0, 2}
FacFroms == {<<97>>, <<97, 32>>, <<>>}
FacTos == {<<>>, <<120>>, Euro}
FarIdx == 99
FacIdx == {0, 1, 2, FarIdx}

\* StringBase(char* b, size_t c): the length is read from the buffer
FacadeStart(content, cap, fill) ==
    /\ _capacity = cap
    /\ _buf = MemOf(content, cap + Guard, fill)
    /\ _len = Len(content)
    /\ _maxLenSeen = Len(content)
    /\ lastOp = [op |-> "new", src |-> NULL, charIdx |-> 0, fault |-> FALSE]

Init ==
    /\ pc = 0
    /\ \E content \in FacContents, cap \in 2..MaxFacCap, fill \in EngFill :
          /\ Len(content) <= cap - 1
          /\ FacadeStart(content, cap, fill)
    /\ in = NoCall
    /\ out = NoCall

Self == [buf |-> _buf, len |-> _len, peak |-> _maxLenSeen, fault |-> FALSE]

\* the facade after a call that left it as o
Becomes(o, op, src, charIdx) ==
    /\ _buf' = o.buf
    /\ _len' = o.len
    /\ _maxLenSeen' = o.peak
    /\ lastOp' = [op |-> op, src |-> src, charIdx |-> charIdx, fault |-> o.fault]
    /\ pc' = pc + 1
    /\ UNCHANGED <<_capacity, in, out>>

CanCall == pc < MaxOps /\ ~lastOp.fault

ClearCall == CanCall /\ Becomes(StringBase_clear(Self, _capacity), "clear", NULL, 0)

AssignCall ==
    /\ CanCall
    /\ \E src \in FacSrcs : Becomes(StringBase_assign(Self, _capacity, src), "assign", src, 0)

AppendCall ==
    /\ CanCall
    /\ \E src \in FacSrcs :
          Becomes(StringBase_append(Self, _capacity, src, IF src = NULL THEN 0 ELSE Len(src)),
                  "append", src, 0)

AppendIntCall ==
    /\ CanCall
    /\ \E val \in FacInts, width \in FacWidths :
          Becomes(StringBase_appendInt(Self, _capacity, val, width, 48), "appendInt", NULL, 0)

AppendFloatCall ==
    /\ CanCall
    /\ \E val \in FacFloats, decimalPlaces \in FacDecimals :
          Becomes(StringBase_appendFloat(Self, _capacity, val, decimalPlaces),
                  "appendFloat", NULL, 0)

InsertCall ==
    /\ CanCall
    /\ \E charIdx \in FacIdx, src \in FacSrcs :
          Becomes(StringBase_insert(Self, _capacity, charIdx, src), "insert", src, charIdx)

RemoveCall ==
    /\ CanCall
    /\ \E charIdx \in FacIdx, charCount \in 0..2 :
          Becomes(StringBase_remove(Self, charIdx, charCount), "remove", NULL, charIdx)

ReplaceCall ==
    /\ CanCall
    /\ \E from \in FacFroms, to \in FacTos, ignoreCase \in BOOLEAN :
          Becomes(StringBase_replace(Self, _capacity, from, to, ignoreCase), "replace", to, 0)

TrimCall == CanCall /\ Becomes(StringBase_trim(Self), "trim", NULL, 0)

SanitizeCall == CanCall /\ Becomes(StringBase_sanitize(Self, _capacity), "sanitize", NULL, 0)

Next ==
    \/ ClearCall \/ AssignCall \/ AppendCall \/ AppendIntCall \/ AppendFloatCall
    \/ InsertCall \/ RemoveCall \/ ReplaceCall \/ TrimCall \/ SanitizeCall

Spec == Init /\ [][Next]_vars

\* C1: after any sequence of the facade's mutating operations the buffer is
\* terminated at its length, and the length is at most capacity - 1.
C1_FacadeTerminated ==
    lastOp.op # "none" => (Rd(_buf, _len) = 0 /\ _len <= _capacity - 1)

-----------------------------------------------------------------------------
(* One call of insert, remove or sanitize on a facade whose buffer holds    *)
(* well-formed UTF-8; in keeps the content and capacity before the call.    *)

MaxUtf8Units == 3

Utf8Contents == {Flatten(u) : u \in SeqsUpTo(FacUnits, MaxUtf8Units)}

Utf8Init ==
    /\ pc = MaxOps - 1
    /\ \E content \in Utf8Contents, cap \in 2..MaxFacCap, fill \in EngFill :
          /\ Len(content) <= cap - 1
          /\ FacadeStart(content, cap, fill)
          /\ in = [content |-> content, cap |-> cap]
    /\ out = NoCall

Utf8Next == InsertCall \/ RemoveCall \/ SanitizeCall

SpecUtf8 == Utf8Init /\ [][Utf8Next]_vars

\* the facade's content: the bytes before its length
Content == Bytes(_buf, 0, _len)

\* s with t put in at byte offset k
InsertedAt(s, t, k) == SubSeq(s, 1, k) \o t \o SubSeq(s, k + 1, Len(s))

\* C7: a 3-byte character inserted with fewer than 3 free bytes is either in
\* the content whole, or the content is what it was before the call.
C7_InsertWholeOrNothing ==
    (pc = MaxOps /\ lastOp.op = "insert" /\ lastOp.src = Euro
        /\ in.cap - 1 - Len(in.content) < 3) =>
        \/ Content = in.content
        \/ \E k \in 0..Len(in.content), n \in 0..Len(in.content) :
              /\ n >= k
              /\ Content = InsertedAt(SubSeq(in.content, 1, n), Euro, k)

\* the number of bytes the form of lead byte b announces (0 for a non-lead)
FormLen(b) ==
    IF b >= 192 /\ b <= 223 THEN 2
    ELSE IF b >= 224 /\ b <= 239 THEN 3
    ELSE IF b >= 240 /\ b <= 247 THEN 4
    ELSE 0

\* s ends in a lead byte followed by fewer continuation bytes than its form needs
EndsIncomplete(s) ==
    \E k \in 1..Min(3, Len(s)) :
        /\ FormLen(s[Len(s) - k + 1]) > k
        /\ \A j \in (Len(s) - k + 2)..Len(s) : IsCont(s[j])

\* C8: from a well-formed buffer and a well-formed source, the content after
\* facade insert, remove or sanitize does not end in an incomplete multi-byte
\* sequence, and is terminated at its length.
C8_NoIncompleteTail ==
    (pc = MaxOps /\ lastOp.op \in {"insert", "remove", "sanitize"}
        /\ (lastOp.src = NULL \/ WellFormed(lastOp.src))) =>
        /\ ~EndsIncomplete(Content)
        /\ Rd(_buf, _len) = 0

\* a 3-byte character that did not fit: the call changed the content
C8_Witness ==
    /\ pc = MaxOps /\ lastOp.op = "insert" /\ lastOp.src = Euro
    /\ in.cap - 1 - Len(in.content) = 2
    /\ lastOp.charIdx = 1 /\ Len(in.content) >= 3
    /\ Content # in.content

-----------------------------------------------------------------------------
(* Number harness: a long rendered by appendInt into an empty buffer and    *)
(* read back by toInt, a double rendered by appendFloat, a text read by     *)
(* toInt.                                                                    *)

MaxSmall == 12
MaxDigits == 18
NumCap == 24

Nines(k) == [i \in 1..k |-> 9]
TenPow(k) == <<1>> \o [i \in 1..k |-> 0]

\* INT_MAX, and LONG_MAX of a build with 64-bit long
IntMaxMag == <<2, 1, 4, 7, 4, 8, 3, 6, 4, 7>>
LongMaxMag == <<9, 2, 2, 3, 3, 7, 2, 0, 3, 6, 8, 5, 4, 7, 7, 5, 8, 0, 7>>

\* is [neg, mag] a value of type long
IsLong(v) ==
    /\ WideLE(v.mag, IF v.neg THEN WideInc(LongMaxMag) ELSE LongMaxMag)
    /\ ~(v.neg /\ v.mag = <<0>>)

NumMags ==
    {Wide(n) : n \in 0..MaxSmall}
    \cup {Nines(k) : k \in 1..MaxDigits} \cup {TenPow(k) : k \in 1..MaxDigits}
    \cup {IntMaxMag, WideInc(IntMaxMag), LongMaxMag, WideInc(LongMaxMag)}

LongValues == {v \in [neg : BOOLEAN, mag : NumMags] : IsLong(v)}

\* the long that an int of the model stands for
IntToLong(n) ==
    IF n < -2147483647 THEN [neg |-> TRUE, mag |-> WideInc(IntMaxMag)] ELSE Long(n)

\* doubles: integer parts up to 12 digits, fractions at and next to the halves
FloatWholes == {Wide(0), Wide(2), Wide(9), Wide(99), Nines(9), Nines(10), TenPow(10), TenPow(11)}
FloatMicros == {0, 4999, 5000, 125000, 499999, 500000, 994999, 995000, 999999}
DoubleValues == [neg : BOOLEAN, whole : FloatWholes, micro : FloatMicros]

\* texts: white space, signs, digit runs (within and beyond the int range,
\* up to MaxDigits digits) and what may follow them
TextSpaces == {<<>>, <<32>>, <<9, 32>>}
TextSigns == {<<>>, <<45>>, <<43>>, <<43, 45>>, <<45, 32>>}
TextDigits ==
    {<<>>, <<48>>, <<48, 52, 50>>, <<55>>, <<57, 57, 57, 57, 57>>,
     [i \in 1..10 |-> 48 + IntMaxMag[i]],
     [i \in 1..10 |-> 48 + WideInc(IntMaxMag)[i]],
     <<52, 50, 57, 52, 57, 54, 55, 50, 57, 54>>,
     [i \in 1..MaxDigits |-> 57]}
TextRests == {<<>>, <<32>>, <<120, 56>>, <<46, 53>>}

TextInputs ==
    {sp \o sg \o ds \o rest :
        sp \in TextSpaces, sg \in TextSigns, ds \in TextDigits, rest \in TextRests}

NumInputs ==
    {[kind |-> "long", val |-> v] : v \in LongValues}
    \cup {[kind |-> "double", val |-> v] : v \in DoubleValues}
    \cup {[kind |-> "text", val |-> [text |-> t]] : t \in TextInputs}

NumInit ==
    /\ pc = 0
    /\ in \in NumInputs
    /\ out = NoCall
    /\ _buf = <<>> /\ _capacity = 0 /\ _len = 0 /\ _maxLenSeen = 0 /\ lastOp = NoCall

\* appendInt(buffer, NumCap, curLen = 0, val, 0, ' ') on an empty buffer
RenderInt ==
    /\ pc = 0 /\ in.kind = "long"
    /\ \E fill \in EngFill :
          LET r == appendInt(MemOf(<<>>, NumCap, fill), NumCap, 0, in.val, 0, 32)
          IN  out' = [op |-> "appendInt", buf |-> r.buf, len |-> r.len, fault |-> r.fault]
    /\ pc' = 1
    /\ UNCHANGED <<in, facadeVars>>

\* toInt(buffer) on what appendInt left
ParseBack ==
    /\ pc = 1 /\ out.op = "appendInt" /\ ~out.fault
    /\ out' = [op |-> "toInt", text |-> CStr(out.buf, 0), r |-> toInt(CStr(out.buf, 0))]
    /\ pc' = 2
    /\ UNCHANGED <<in, facadeVars>>

\* toInt(str) on a text
ParseText ==
    /\ pc = 0 /\ in.kind = "text"
    /\ out' = [op |-> "parse", r |-> toInt(in.val.text)]
    /\ pc' = 1
    /\ UNCHANGED <<in, facadeVars>>

\* Does double arithmetic give the digits of the exact sums for val at p
\* places?  The error of fracPart * 10^p is about 10^(d + p) * 2^-52 for an
\* integer part of d digits, and the source adds 1e-9 before it truncates:
\* a value whose digits below place p are exactly one half needs the error
\* below 1e-9 (or p = 0, where nothing is rounded in binary), any other
\* value only needs it below its distance from the next digit.
DoubleExact(val, p) ==
    LET d == Len(val.whole)
        r == IF p <= 5 THEN (val.micro % Pow10(6 - p)) * Pow10(p) ELSE 0
    IN  IF r = 0 THEN d + p <= 15
        ELSE IF r = Micro \div 2 THEN d + p <= 6 \/ (p = 0 /\ d <= 15)
        ELSE d + p <= 9

\* appendFloat(buffer, NumCap, curLen = 0, val, decimalPlaces) on an empty buffer
RenderFloat ==
    /\ pc = 0 /\ in.kind = "double"
    /\ \E decimalPlaces \in -1..10 :
          /\ DoubleExact(in.val, Max(0, Min(9, decimalPlaces)))
          /\ LET r == appendFloat(MemOf(<<>>, NumCap, 0), NumCap, 0, in.val, decimalPlaces)
             IN  out' = [op |-> "appendFloat", decimalPlaces |-> decimalPlaces,
                         buf |-> r.buf, len |-> r.len, fault |-> r.fault]
    /\ pc' = 1
    /\ UNCHANGED <<in, facadeVars>>

NumNext == RenderInt \/ ParseBack \/ RenderFloat \/ ParseText

SpecNum == NumInit /\ [][NumNext]_vars

\* C11: a long rendered by appendInt into an empty buffer with room for it is
\* rendered (the call returns), and toInt of the text is the long.
C11_IntRoundTrip ==
    (in.kind = "long" /\ pc >= 1) =>
        /\ out.op = "appendInt" => ~out.fault
        /\ out.op = "toInt" => IntToLong(out.r) = in.val

\* the ASCII digits of a wide number
DigitChars(w) == [i \in 1..Len(w) |-> 48 + w[i]]

\* n as exactly k ASCII digits, zero-padded
RECURSIVE PaddedDigits(_, _)
PaddedDigits(n, k) == IF k = 0 THEN <<>> ELSE Append(PaddedDigits(n \div 10, k - 1), 48 + (n % 10))

\* the magnitude whole + micro / 10^6 rounded half-up to p places, as text
HalfUpText(v, p) ==
    LET q == Pow10(6 - p)
        rf == IF p <= 6 THEN (v.micro + (q \div 2)) \div q ELSE v.micro * Pow10(p - 6)
        carry == rf >= Pow10(p)
        int == IF carry THEN WideInc(v.whole) ELSE v.whole
        frac == IF carry THEN rf - Pow10(p) ELSE rf
    IN  (IF v.neg THEN <<45>> ELSE <<>>) \o DigitChars(int)
        \o (IF p > 0 THEN <<46>> \o PaddedDigits(frac, p) ELSE <<>>)

\* C12: appendFloat(v, p) renders v rounded half-up to p places (p taken
\* into 0..9): exactly p fraction digits, the carry in the integer part.
C12_FloatRoundedHalfUp ==
    (pc = 1 /\ out.op = "appendFloat") =>
        /\ ~out.fault
        /\ CStr(out.buf, 0) = HalfUpText(in.val, Max(0, Min(9, out.decimalPlaces)))


\* s without its leading bytes from the set S
RECURSIVE DropWhile(_, _)
DropWhile(s, S) == IF s # <<>> /\ Head(s) \in S THEN DropWhile(Tail(s), S) ELSE s

\* the leading bytes of s from the set S
RECURSIVE TakeWhile(_, _)
TakeWhile(s, S) ==
    IF s # <<>> /\ Head(s) \in S THEN <<Head(s)>> \o TakeWhile(Tail(s), S) ELSE <<>>

\* The number a text denotes: white space, at most one sign, a run of decimal
\* digits; what follows the run does not count, and no digit means 0.
TextValue(text) ==
    LET body == DropWhile(text, (9..13) \cup {32})
        signed == body # <<>> /\ Head(body) \in {43, 45}
        run == TakeWhile(IF signed THEN Tail(body) ELSE body, 48..57)
        digits == DropWhile(run, {48})
        mag == IF digits = <<>> THEN <<0>> ELSE [i \in 1..Len(digits) |-> digits[i] - 48]
    IN  [neg |-> signed /\ Head(body) = 45 /\ mag # <<0>>, mag |-> mag]

\* C17: toInt returns, for every text, the value of the digit run behind the
\* leading white space and at most one sign, with the sign applied, and 0
\* when there is no digit; what follows the run is ignored
C17_ToIntDigitRun ==
    (pc = 1 /\ out.op = "parse") => IntToLong(out.r) = TextValue(in.val.text)

\* ---------------------------------------------------------------------------
\* Tokenizer (cmsStringUtil.cpp, split)
\* ---------------------------------------------------------------------------

\* the scan splitting once more when the token array is already full
RECURSIVE splitLoop_OneTooMany(_, _, _, _, _)
splitLoop_OneTooMany(m, delimiter, tokens, p, maxTokens) ==
    IF Rd(m, p) = 0 THEN [buf |-> m, tokens |-> tokens, count |-> Len(tokens)]
    ELSE IF Rd(m, p) = delimiter
         THEN IF Len(tokens) <= maxTokens
              THEN splitLoop_OneTooMany(Store(m, p, 0), delimiter, Append(tokens, p + 1),
                                        p + 1, maxTokens)
              ELSE [buf |-> m, tokens |-> tokens, count |-> Len(tokens)]
         ELSE splitLoop_OneTooMany(m, delimiter, tokens, p + 1, maxTokens)

\* while (*p) { if (*p == delimiter) { ... } p++; } of the destructive split:
\* tokens holds the offsets of the token starts within str
RECURSIVE splitLoop(_, _, _, _, _)
splitLoop(m, delimiter, tokens, p, maxTokens) ==
    IF Rd(m, p) = 0 THEN [buf |-> m, tokens |-> tokens, count |-> Len(tokens)]
    ELSE IF Rd(m, p) = delimiter
         THEN IF Len(tokens) < maxTokens
              THEN splitLoop(Store(m, p, 0), delimiter, Append(tokens, p + 1), p + 1, maxTokens)
              ELSE [buf |-> m, tokens |-> tokens, count |-> Len(tokens)]
         ELSE splitLoop(m, delimiter, tokens, p + 1, maxTokens)

\* size_t split(char* str, char delimiter, char** tokens, size_t maxTokens);
\* str is NULL or the memory holding the string at offset 0
split(str, delimiter, tokens, maxTokens) ==
    IF str = NULL \/ tokens = NULL \/ maxTokens = 0
    THEN [buf |-> str, tokens |-> <<>>, count |-> 0]
    ELSE splitLoop(str, delimiter, <<0>>, 0, maxTokens)

\* the scan of the Token overload; the result carries start and p at loop exit
RECURSIVE splitTokenLoop(_, _, _, _, _, _)
splitTokenLoop(m, delimiter, tokens, start, p, maxTokens) ==
    IF Rd(m, p) = 0 THEN [tokens |-> tokens, start |-> start, p |-> p]
    ELSE IF Rd(m, p) = delimiter
         THEN IF Len(tokens) < maxTokens - 1
              THEN splitTokenLoop(m, delimiter,
                                  Append(tokens, [ptr |-> start, len |-> p - start]),
                                  p + 1, p + 1, maxTokens)
              ELSE [tokens |-> tokens, start |-> start, p |-> p]
         ELSE splitTokenLoop(m, delimiter, tokens, start, p + 1, maxTokens)

\* size_t split(const char* str, char delimiter, Token* tokens, size_t maxTokens)
splitToken(str, delimiter, tokens, maxTokens) ==
    IF str = NULL \/ tokens = NULL \/ maxTokens = 0
    THEN [tokens |-> <<>>, count |-> 0]
    ELSE LET r == splitTokenLoop(str, delimiter, <<>>, 0, 0, maxTokens)
             last == [ptr |-> r.start, len |-> r.p - r.start]
         IN  [tokens |-> Append(r.tokens, last), count |-> Len(r.tokens) + 1]

\* ---------------------------------------------------------------------------
\* Tokenizer harness: one string is split into views, then split in place
\* ---------------------------------------------------------------------------

MaxSplitLen == 4
MaxTokens == 3

Colon == 58
Scenario5 == <<32, 97, 58, 98, 58, 99, 32>>

SplitStrs == SeqsUpTo({97, 32, Colon}, MaxSplitLen) \cup {Scenario5, NULL}

SplitInputs ==
    [str : SplitStrs, delimiter : {Colon, 32}, maxTokens : 0..MaxTokens]

SplitInit ==
    /\ _buf = <<>> /\ _capacity = 0 /\ _len = 0 /\ _maxLenSeen = 0
    /\ lastOp = NoCall
    /\ pc = 0
    /\ in \in SplitInputs
    /\ out = [op |-> "none", buf |-> IF in.str = NULL THEN NULL
                                      ELSE MemOf(in.str, Len(in.str) + 1, 0)]

\* the Token overload; the source is left as it is
SplitViews ==
    /\ pc = 0
    /\ LET r == splitToken(out.buf, in.delimiter, <<>>, in.maxTokens)
       IN  out' = [op |-> "views", buf |-> out.buf, vcount |-> r.count, views |-> r.tokens]
    /\ pc' = 1
    /\ UNCHANGED <<facadeVars, in>>

\* the destructive overload, on the same source
SplitInPlace ==
    /\ pc = 1
    /\ LET r == split(out.buf, in.delimiter, <<>>, in.maxTokens)
       IN  out' = [op |-> "split", buf |-> r.buf, count |-> r.count, tokens |-> r.tokens,
                   vcount |-> out.vcount, views |-> out.views]
    /\ pc' = 2
    /\ UNCHANGED <<facadeVars, in>>

SplitNext == SplitViews \/ SplitInPlace

SpecSplit == SplitInit /\ [][SplitNext]_vars

\* the C string a destructive token points at
TokenText(i) == CStr(out.buf, out.tokens[i])

\* the bytes a view spans, read from the source as it was
ViewText(i) == Bytes(MemOf(in.str, Len(in.str) + 1, 0), out.views[i].ptr, out.views[i].len)

\* C13: for maxTokens >= 1 the Token overload returns as many tokens as the
\* destructive split, and every view spans the bytes of the destructive token
\* of the same index: the same start, the same length (the last one up to the
\* terminator, further delimiters included)
C13_ViewsMatchDestructive ==
    (pc = 2 /\ in.str # NULL /\ in.maxTokens >= 1) =>
        /\ out.vcount = out.count
        /\ \A i \in 1..out.count :
              /\ out.views[i].ptr = out.tokens[i]
              /\ out.views[i].len = strlen(out.buf, out.tokens[i]) - out.tokens[i]
              /\ ViewText(i) = TokenText(i)

\* C14 as stated: split(" a:b:c ", ':', tokens, 2) returns 2 and the tokens
\* are "a" and "b:c", without the spaces around the input
C14_Scenario5Trimmed ==
    (pc = 2 /\ in.str = Scenario5 /\ in.delimiter = Colon /\ in.maxTokens = 2) =>
        /\ out.count = 2
        /\ TokenText(1) = <<97>>
        /\ TokenText(2) = <<98, Colon, 99>>

\* C14 amended: split(" a:b:c ", ':', tokens, 2) returns 2 and the tokens are
\* " a" and "b:c ": the first delimiter is overwritten, the second is kept in
\* the last token, and the spaces of the input stay in the tokens
C14_Scenario5 ==
    (pc = 2 /\ in.str = Scenario5 /\ in.delimiter = Colon /\ in.maxTokens = 2) =>
        /\ out.count = 2
        /\ TokenText(1) = <<32, 97>>
        /\ TokenText(2) = <<98, Colon, 99, 32>>
        /\ out.buf = MemOf(<<32, 97, 0, 98, Colon, 99, 32>>, 8, 0)

C14_Witness ==
    /\ pc = 2 /\ in.str = Scenario5 /\ in.delimiter = Colon /\ in.maxTokens = 2
    /\ out.op = "split" /\ out.count = 2


\* ---------------------------------------------------------------------------
\* Queries (cmsStringUtil.cpp): startsWith, endsWith, contains, lastIndexOf
\* ---------------------------------------------------------------------------
\* str is NULL or a memory holding the string at offset 0; a pattern is NULL
\* or a C string given as a sequence.

\* strncmp(str, prefix, n) == 0
RECURSIVE strncmpEqual(_, _, _, _)
strncmpEqual(m, s, i, n) ==
    IF i >= n THEN TRUE
    ELSE IF Rd(m, i) # CAt(s, i) THEN FALSE
    ELSE IF Rd(m, i) = 0 THEN TRUE
    ELSE strncmpEqual(m, s, i + 1, n)

\* for (i = 0; i < prefixLen; i++) { ... } of startsWith
RECURSIVE startsWithLoop(_, _, _, _)
startsWithLoop(m, prefix, i, prefixLen) ==
    IF i >= prefixLen THEN TRUE
    ELSE IF Rd(m, i) = 0 THEN FALSE
    ELSE IF toLower(Rd(m, i)) # toLower(CAt(prefix, i)) THEN FALSE
    ELSE startsWithLoop(m, prefix, i + 1, prefixLen)

\* bool startsWith(const char* str, const char* prefix, size_t prefixLen, bool ignoreCase)
startsWith(str, prefix, prefixLen, ignoreCase) ==
    IF str = NULL \/ prefix = NULL THEN FALSE
    ELSE IF ~ignoreCase THEN strncmpEqual(str, prefix, 0, prefixLen)
    ELSE startsWithLoop(str, prefix, 0, prefixLen)

\* bool startsWith(const char* str, const char* prefix, bool ignoreCase)
startsWith_cstr(str, prefix, ignoreCase) ==
    IF str = NULL \/ prefix = NULL THEN FALSE
    ELSE startsWith(str, prefix, Len(prefix), ignoreCase)

\* while (*target && *suffix) { ... } return *suffix == '\0'; of endsWith
RECURSIVE endsWithLoop(_, _, _, _)
endsWithLoop(m, target, suffix, i) ==
    IF Rd(m, target) # 0 /\ CAt(suffix, i) # 0
    THEN IF toLower(Rd(m, target)) # toLower(CAt(suffix, i)) THEN FALSE
         ELSE endsWithLoop(m, target + 1, suffix, i + 1)
    ELSE CAt(suffix, i) = 0

\* bool endsWith(const char* str, size_t strLen, const char* suffix, size_t suffixLen,
\*               bool ignoreCase)
endsWith(str, strLen, suffix, suffixLen, ignoreCase) ==
    IF str = NULL \/ suffix = NULL \/ suffixLen > strLen THEN FALSE
    ELSE LET target == strLen - suffixLen
         IN  IF ~ignoreCase THEN CStr(str, target) = suffix
             ELSE endsWithLoop(str, target, suffix, 0)

\* bool endsWith(const char* str, const char* suffix, bool ignoreCase)
endsWith_cstr(str, suffix, ignoreCase) ==
    IF str = NULL \/ suffix = NULL THEN FALSE
    ELSE endsWith(str, strlen(str, 0), suffix, Len(suffix), ignoreCase)

\* bool contains(const char* str, size_t strLen, const char* target, size_t targetLen,
\*               bool ignoreCase)
contains(str, strLen, target, targetLen, ignoreCase) ==
    IF str = NULL \/ target = NULL \/ targetLen > strLen THEN FALSE
    ELSE IF targetLen = 0 THEN TRUE
    ELSE (IF ignoreCase THEN strcasestr(str, 0, target) ELSE strstr(str, 0, target)) # NotFound

\* bool contains(const char* str, const char* target, bool ignoreCase)
contains_cstr(str, target, ignoreCase) ==
    IF str = NULL \/ target = NULL THEN FALSE
    ELSE contains(str, strlen(str, 0), target, Len(target), ignoreCase)

\* while (true) { found = ...; if (!found) break; lastFound = found; current = found + 1; }
RECURSIVE lastIndexOfLoop(_, _, _, _, _)
lastIndexOfLoop(m, target, ignoreCase, current, lastFound) ==
    LET found == IF ignoreCase THEN strcasestr(m, current, target)
                 ELSE strstr(m, current, target)
    IN  IF found = NotFound THEN lastFound
        ELSE lastIndexOfLoop(m, target, ignoreCase, found + 1, found)

\* int lastIndexOf(const char* str, size_t strLen, const char* target, size_t targetLen,
\*                 bool ignoreCase)
lastIndexOf(str, strLen, target, targetLen, ignoreCase) ==
    IF str = NULL \/ target = NULL \/ targetLen = 0 \/ targetLen > strLen THEN -1
    ELSE LET lastFound == lastIndexOfLoop(str, target, ignoreCase, 0, NotFound)
         IN  IF lastFound = NotFound THEN -1 ELSE CountLeads(str, 0, lastFound)

\* int lastIndexOf(const char* str, const char* target, bool ignoreCase)
lastIndexOf_cstr(str, target, ignoreCase) ==
    IF str = NULL \/ target = NULL THEN -1
    ELSE lastIndexOf(str, strlen(str, 0), target, Len(target), ignoreCase)

\* int find(const char* str, const char* target, size_t startChar, bool ignoreCase)
find_cstr(str, target, startChar, ignoreCase) ==
    IF str = NULL \/ target = NULL THEN -1
    ELSE find(str, strlen(str, 0), target, Len(target), startChar, ignoreCase)


\* ---------------------------------------------------------------------------
\* Argument harness: one call on a string object, with valid and invalid
\* arguments (null pointers, empty patterns, empty sources)
\* ---------------------------------------------------------------------------

ArgSrcs == {NULL, <<>>, <<120>>, EAcute}
ArgPatterns == {NULL, <<>>, <<97>>, <<65, 32>>, Euro}
ArgTos == {NULL, <<>>, <<120>>}
ArgIdx == {0, 1, FarIdx}

ArgInit ==
    /\ pc = 0
    /\ \E content \in FacContents, cap \in 2..MaxFacCap, fill \in EngFill :
          /\ Len(content) <= cap - 1
          /\ FacadeStart(content, cap, fill)
          /\ in = [content |-> content, cap |-> cap, fill |-> fill]
    /\ out = NoCall

\* a mutating call: the object becomes o, the call is recorded
Mutates(o, rec) ==
    /\ _buf' = o.buf
    /\ _len' = o.len
    /\ _maxLenSeen' = o.peak
    /\ out' = rec
    /\ pc' = 1
    /\ UNCHANGED <<_capacity, lastOp, in>>

\* a query: nothing of the object is written, the result is recorded
Answers(rec) ==
    /\ out' = rec
    /\ pc' = 1
    /\ UNCHANGED <<facadeVars, in>>

ArgAppend ==
    /\ pc = 0
    /\ \E src \in ArgSrcs :
          Mutates(StringBase_append(Self, _capacity, src, IF src = NULL THEN 0 ELSE Len(src)),
                  [op |-> "append", src |-> src])

ArgInsert ==
    /\ pc = 0
    /\ \E charIdx \in ArgIdx, src \in ArgSrcs :
          Mutates(StringBase_insert(Self, _capacity, charIdx, src),
                  [op |-> "insert", src |-> src])

ArgReplace ==
    /\ pc = 0
    /\ \E from \in ArgPatterns, to \in ArgTos, ignoreCase \in BOOLEAN :
          Mutates(StringBase_replace(Self, _capacity, from, to, ignoreCase),
                  [op |-> "replace", from |-> from, to |-> to])

\* the string argument of a query: the object's buffer, or a null pointer
ArgStrs == {_buf, NULL}

ArgFind ==
    /\ pc = 0
    /\ \E str \in ArgStrs, target \in ArgPatterns, startChar \in 0..1, ignoreCase \in BOOLEAN :
          Answers([op |-> "find", str |-> str, target |-> target,
                   r |-> find_cstr(str, target, startChar, ignoreCase)])

ArgLastIndexOf ==
    /\ pc = 0
    /\ \E str \in ArgStrs, target \in ArgPatterns, ignoreCase \in BOOLEAN :
          Answers([op |-> "lastIndexOf", str |-> str, target |-> target,
                   r |-> lastIndexOf_cstr(str, target, ignoreCase)])

ArgContains ==
    /\ pc = 0
    /\ \E str \in ArgStrs, target \in ArgPatterns, ignoreCase \in BOOLEAN :
          Answers([op |-> "contains", str |-> str, target |-> target,
                   r |-> contains_cstr(str, target, ignoreCase)])

ArgStartsWith ==
    /\ pc = 0
    /\ \E str \in ArgStrs, target \in ArgPatterns, ignoreCase \in BOOLEAN :
          Answers([op |-> "startsWith", str |-> str, target |-> target,
                   r |-> startsWith_cstr(str, target, ignoreCase)])

ArgEndsWith ==
    /\ pc = 0
    /\ \E str \in ArgStrs, target \in ArgPatterns, ignoreCase \in BOOLEAN :
          Answers([op |-> "endsWith", str |-> str, target |-> target,
                   r |-> endsWith_cstr(str, target, ignoreCase)])

ArgNext ==
    \/ ArgAppend \/ ArgInsert \/ ArgReplace
    \/ ArgFind \/ ArgLastIndexOf \/ ArgContains \/ ArgStartsWith \/ ArgEndsWith

SpecArgs == ArgInit /\ [][ArgNext]_vars

ArgMutators == {"append", "insert", "replace"}
ArgIndexQueries == {"find", "lastIndexOf"}
ArgBoolQueries == {"contains", "startsWith", "endsWith"}

\* the recorded call had a null pointer among its arguments
NullArg ==
    \/ out.op \in {"append", "insert"} /\ out.src = NULL
    \/ out.op = "replace" /\ (out.from = NULL \/ out.to = NULL)
    \/ out.op \in ArgIndexQueries \cup ArgBoolQueries /\ (out.str = NULL \/ out.target = NULL)

\* the recorded call had an empty source or an empty pattern, and no null pointer
EmptyArg ==
    /\ ~NullArg
    /\ \/ out.op \in {"append", "insert"} /\ out.src = <<>>
       \/ out.op = "replace" /\ out.from = <<>>
       \/ out.op \in ArgIndexQueries \cup ArgBoolQueries /\ out.target = <<>>

\* buffer and length are as the object was constructed
ObjectUntouched ==
    /\ _buf = MemOf(in.content, in.cap + Guard, in.fill)
    /\ _len = Len(in.content)

\* C15 as stated: a call with a null pointer, an empty pattern or an empty
\* source leaves buffer and length unchanged, and every query then returns -1
\* or false, never a match for an empty pattern
C15_InvalidInputNoMatch ==
    (pc = 1 /\ (NullArg \/ EmptyArg)) =>
        /\ ObjectUntouched
        /\ out.op \in ArgIndexQueries => out.r = -1
        /\ out.op \in ArgBoolQueries => out.r = FALSE

\* C15 amended: such a call leaves buffer and length unchanged; with a null
\* pointer every query returns -1 or false; with an empty pattern find and
\* lastIndexOf return -1, and contains, startsWith and endsWith return true
C15_InvalidInput ==
    (pc = 1 /\ (NullArg \/ EmptyArg)) =>
        /\ ObjectUntouched
        /\ out.op \in ArgIndexQueries => out.r = -1
        /\ out.op \in ArgBoolQueries => out.r = EmptyArg

C15_Witness ==
    /\ pc = 1 /\ EmptyArg /\ out.op = "find" /\ out.r = -1
    /\ Len(in.content) > 0


\* ---------------------------------------------------------------------------
\* Validation harness: validateUtf8 on one terminated string
\* ---------------------------------------------------------------------------

MaxValTails == 3

\* the bytes at which the branches of validateUtf8 change
ValLeads == {127, 128, 191, 192, 193, 194, 223, 224, 225, 236, 237, 238, 239,
             240, 241, 243, 244, 245, 255}
ValTails == {65, 128, 143, 144, 159, 160, 191, 192}
ValPrefixes == {<<>>, <<65>>, Euro}

\* a string: a prefix, one lead byte and up to MaxValTails bytes behind it
ValInit ==
    /\ pc = 0
    /\ \E pre \in ValPrefixes, lead \in ValLeads, tails \in SeqsUpTo(ValTails, MaxValTails) :
          LET s == pre \o <<lead>> \o tails
          IN  in = [content |-> s, buf |-> MemOf(s, Len(s) + 1 + Guard, 128)]
    /\ out = NoCall
    /\ _buf = <<>> /\ _capacity = 0 /\ _len = 0 /\ _maxLenSeen = 0 /\ lastOp = NoCall

Validate ==
    /\ pc = 0
    /\ LET r == validateScan(in.buf, 0, {})
       IN  out' = [op |-> "validate", r |-> validateUtf8(in.buf), rd |-> r.rd]
    /\ pc' = 1
    /\ UNCHANGED <<facadeVars, in>>

ValNext == Validate

SpecValidate == ValInit /\ [][ValNext]_vars

\* C16: validate answers true exactly for the well-formed strings (overlong
\* forms, surrogates, code points above U+10FFFF and the lead bytes from F5
\* are rejected), and it reads no byte behind the terminator
C16_ValidateExact ==
    pc = 1 =>
        /\ out.r = WellFormed(in.content)
        /\ \A i \in out.rd : i >= 0 /\ i <= Len(in.content)

\* a truncated sequence in front of the terminator was rejected
C16_Witness ==
    /\ pc = 1 /\ ~out.r
    /\ Len(in.content) >= 2
    /\ in.content[Len(in.content) - 1] = 240
    /\ in.content[Len(in.content)] = 144
    /\ Len(in.content) \in out.rd


\* ---------------------------------------------------------------------------
\* High-water mark of the facade (specification Spec)
\* ---------------------------------------------------------------------------

substring(src, dest, destLen, left, right) ==
    IF src = NULL \/ dest = NULL \/ destLen = 0 THEN [dest |-> dest, len |-> 0]
    ELSE LET cleared == Store(dest, 0, 0)
             startPtr == findUtf8CharStart(src, 0, left)
             endPtr == IF right = 0 THEN strlen(src, 0)
                       ELSE findUtf8CharStart(src, startPtr, right - left)
             span == endPtr - startPtr
             byteLen == IF span >= destLen THEN destLen - 1 ELSE span
         IN  IF Rd(src, startPtr) = 0 THEN [dest |-> cleared, len |-> 0]
             ELSE IF right # 0 /\ right <= left THEN [dest |-> cleared, len |-> 0]
             ELSE IF endPtr <= startPtr THEN [dest |-> cleared, len |-> 0]
             ELSE [dest |-> Store(MemcpySeq(cleared, 0, Bytes(src, startPtr, byteLen), byteLen),
                                  byteLen, 0),
                   len |-> byteLen]

\* ---------------------------------------------------------------------------
\* substring harness: one extraction from a well-formed source
\* ---------------------------------------------------------------------------

MaxSubUnits == 3
MaxDestLen == 5
MaxRight == 3

SubSrcs == {Flatten(u) : u \in SeqsUpTo(FacUnits, MaxSubUnits)}

SubInit ==
    /\ pc = 0
    /\ \E src \in SubSrcs, destLen \in 0..MaxDestLen, fill \in EngFill :
          in = [src |-> src, destLen |-> destLen,
                dest |-> [i \in 0..(destLen + Guard - 1) |-> fill]]
    /\ out = NoCall
    /\ _buf = <<>> /\ _capacity = 0 /\ _len = 0 /\ _maxLenSeen = 0 /\ lastOp = NoCall

Substring ==
    /\ pc = 0
    /\ \E left \in 0..(MaxRight - 1), right \in 0..MaxRight :
          LET r == substring(MemOf(in.src, Len(in.src) + 1, 0), in.dest, in.destLen, left, right)
          IN  out' = [op |-> "substring", left |-> left, right |-> right,
                      dest |-> r.dest, len |-> r.len]
    /\ pc' = 1
    /\ UNCHANGED <<facadeVars, in>>

SubNext == Substring

SpecSub == SubInit /\ [][SubNext]_vars

\* C19: for a well-formed source and a destination of at least one byte,
\* what substring leaves in dest is well-formed UTF-8 of the returned length:
\* whole characters of the source, also when dest is too small for the range
C19_SubstringWholeChars ==
    (pc = 1 /\ in.destLen >= 1) =>
        /\ out.len = Len(CStr(out.dest, 0))
        /\ WellFormed(CStr(out.dest, 0))


\* ---------------------------------------------------------------------------
\* replace harness: one call of replace on a terminated string
\* ---------------------------------------------------------------------------

MaxRepLen == 3
MaxRepCap == 8

RepContents ==
    SeqsUpTo({97, 65, 98}, MaxRepLen)
        \cup {<<97>> \o Euro \o <<97>>, <<233, 97, 97>>, <<97, 98, 97, 195>>}
RepFroms == {<<97>>, <<97, 97>>, <<97, 98>>, <<65, 98, 97>>, Euro}
RepTos == {<<>>, <<97>>, <<97, 97>>, <<98, 97, 98>>, <<120>>, EAcute}

RepInit ==
    /\ pc = 0
    /\ \E content \in RepContents, cap \in 1..MaxRepCap :
          /\ Len(content) <= cap - 1
          /\ in = [content |-> content, cap |-> cap,
                   buf |-> MemOf(content, cap + Guard, 122)]
    /\ out = NoCall
    /\ _buf = <<>> /\ _capacity = 0 /\ _len = 0 /\ _maxLenSeen = 0 /\ lastOp = NoCall

Replace ==
    /\ pc = 0
    /\ \E from \in RepFroms, to \in RepTos, ignoreCase \in BOOLEAN :
          LET r == replace(in.buf, in.cap, Len(in.content), from, to, ignoreCase)
          IN  out' = [op |-> "replace", from |-> from, to |-> to, ignoreCase |-> ignoreCase,
                      buf |-> r.buf, len |-> r.len, fault |-> r.fault]
    /\ pc' = 1
    /\ UNCHANGED <<facadeVars, in>>

RepNext == Replace

SpecReplace == RepInit /\ [][RepNext]_vars

\* The reference substitution: the occurrences of from in s, found left to
\* right without overlap, each replaced by to once.
RECURSIVE Substituted(_, _, _, _)
Substituted(s, from, to, fold) ==
    IF Len(s) < Len(from) THEN s
    ELSE IF OccursAt(s, from, 0, fold)
         THEN to \o Substituted(SubSeq(s, Len(from) + 1, Len(s)), from, to, fold)
         ELSE <<Head(s)>> \o Substituted(Tail(s), from, to, fold)

\* C20: when the substituted content fits the buffer, replace returns and
\* leaves exactly the reference substitution of the original content, also
\* when to contains from; bytes it inserted are never matched again
C20_ReplaceIsSubstitution ==
    pc = 1 =>
        \A ref \in {Substituted(in.content, out.from, out.to, out.ignoreCase)} :
            Len(ref) <= in.cap - 1 =>
                /\ ~out.fault
                /\ out.len = Len(ref)
                /\ CStr(out.buf, 0) = ref

\* from "a" replaced by "aa" twice over
C20_Witness ==
    /\ pc = 1
    /\ out.from = <<97>> /\ out.to = <<97, 97>>
    /\ in.content = <<97, 98, 97>>
    /\ CStr(out.buf, 0) = <<97, 97, 98, 97, 97>>


\* The reference substitution under a capacity: occurrences are replaced left
\* to right while the grown content still fits (length < cap); at the first
\* occurrence that would not fit, the rest of s stays as it is.  len is the
\* length of the whole content so far.
RECURSIVE SubstitutedWithin(_, _, _, _, _, _)
SubstitutedWithin(s, from, to, fold, cap, len) ==
    IF Len(s) < Len(from) THEN s
    ELSE IF OccursAt(s, from, 0, fold)
         THEN IF Len(to) > Len(from) /\ len + (Len(to) - Len(from)) >= cap
              THEN s
              ELSE to \o SubstitutedWithin(SubSeq(s, Len(from) + 1, Len(s)), from, to, fold,
                                           cap, len + Len(to) - Len(from))
         ELSE <<Head(s)>> \o SubstitutedWithin(Tail(s), from, to, fold, cap, len)

\* C21 as stated: when a growing replacement would make the length reach the
\* capacity, replace stops there: the replacements made are kept, that
\* occurrence and all behind it are unchanged, and the returned length is the
\* terminator's index, at most capacity - 1
C21_ReplaceStopsWhole ==
    pc = 1 =>
        \A ref \in {SubstitutedWithin(in.content, out.from, out.to, out.ignoreCase,
                                      in.cap, Len(in.content))} :
            /\ ~out.fault
            /\ CStr(out.buf, 0) = ref
            /\ out.len = Len(ref)
            /\ out.len <= in.cap - 1


\* C21 amended: replace stops at the first occurrence whose growing replacement
\* would make the length reach the capacity and passes the buffer through the
\* UTF-8 repair step; the returned length is the terminator's index, at most
\* capacity - 1, and when what the pass left is well-formed UTF-8 (or nothing
\* was cut short) the replacements made are kept and that occurrence and all
\* behind it are unchanged
C21_ReplaceStopsThenRepairs ==
    pc = 1 =>
        \A ref \in {SubstitutedWithin(in.content, out.from, out.to, out.ignoreCase,
                                      in.cap, Len(in.content))} :
            /\ ~out.fault
            /\ out.len = Len(CStr(out.buf, 0))
            /\ out.len <= in.cap - 1
            /\ (WellFormed(ref)
                  \/ ref = Substituted(in.content, out.from, out.to, out.ignoreCase))
                 => CStr(out.buf, 0) = ref

\* "aba" in 5 bytes, "a" to "aa": the first occurrence is replaced, the second stays
C21_Witness ==
    /\ pc = 1
    /\ in.content = <<97, 98, 97>> /\ in.cap = 5
    /\ out.from = <<97>> /\ out.to = <<97, 97>> /\ ~out.ignoreCase
    /\ CStr(out.buf, 0) = <<97, 97, 98, 97>>
    /\ out.len = 4


-----------------------------------------------------------------------------
(* Format harness: one appendPrintf call on a buffer holding a short        *)
(* content.  The format is every string of up to MaxFmtLen bytes over        *)
(* FmtAlphabet and a list of named formats; the memory behind the format's   *)
(* terminator holds one of FmtTails.                                          *)

MaxFmtLen == 3
FmtCap == 16
FmtSmallCap == 4
MaxFmtArgs == 3

\* % 0 5 . l d c f z
FmtAlphabet == {37, 48, 53, 46, 108, 100, 99, 102, 122}

\* %s %x %X %u %lu %lx %lX %ld %lz %.3 %.3f %05d a%db %5z
FmtNamed ==
    { <<37, 115>>, <<37, 120>>, <<37, 88>>, <<37, 117>>, <<37, 108, 117>>, <<37, 108, 120>>,
      <<37, 108, 88>>, <<37, 108, 100>>, <<37, 108, 122>>, <<37, 46, 51>>,
      <<37, 46, 51, 102>>, <<37, 48, 53, 100>>, <<97, 37, 100, 98>>, <<37, 53, 122>> }

\* what the memory behind the terminator holds: nothing, "d", "%d"
FmtTails == {<<>>, <<100>>, <<37, 100>>}

FmtArgA ==
    [text |-> <<104, 105>>, int |-> Long(-7), long |-> Long(1234), uns |-> 255,
     dbl |-> Double(1500000), chr |-> 113]

FmtArgB ==
    [text |-> NULL, int |-> Long(42), long |-> Long(-7), uns |-> 0,
     dbl |-> Double(-250000), chr |-> 0]

FmtArgLists == {[i \in 1..MaxFmtArgs |-> FmtArgA], [i \in 1..MaxFmtArgs |-> FmtArgB]}

\* the memory holding the format, its terminator and what lies behind it
FormatMem(fmt, tail) ==
    LET all == fmt \o <<0>> \o tail
    IN  [i \in 0..(Len(all) - 1) |-> all[i + 1]]

FmtInit ==
    /\ _buf = <<>> /\ _capacity = 0 /\ _len = 0 /\ _maxLenSeen = 0 /\ lastOp = NoCall
    /\ pc = 0
    /\ \E fmt \in SeqsUpTo(FmtAlphabet, MaxFmtLen) \cup FmtNamed, tail \in FmtTails,
          cap \in {FmtSmallCap, FmtCap}, content \in {<<>>, <<97>>}, args \in FmtArgLists :
            in = [fmt |-> fmt, tail |-> tail, cap |-> cap, content |-> content, args |-> args,
                  buf |-> MemOf(content, cap + Guard, 122)]
    /\ out = NoCall

\* appendPrintf(buffer, cap, curLen, format, args)
Format ==
    /\ pc = 0
    /\ LET r == appendPrintf(in.buf, in.cap, Len(in.content),
                             FormatMem(in.fmt, in.tail), in.args)
       IN  out' = [op |-> "appendPrintf", buf |-> r.buf, len |-> r.len, fault |-> r.fault,
                   p |-> r.p, used |-> r.used]
    /\ pc' = 1
    /\ UNCHANGED <<in, _buf, _capacity, _len, _maxLenSeen, lastOp>>

FmtNext == Format

SpecFormat == FmtInit /\ [][FmtNext]_vars

\* the bytes the call added behind the content
FmtAdded == Bytes(out.buf, Len(in.content), out.len - Len(in.content))

\* C22: a '%' followed by a character that completes no supported verb gives
\* the two bytes '%' and that character and takes no argument: "%z" gives
\* "%z", and "%l" followed by a character other than d, u, x, X (or by the
\* end of the format) gives "%l" with the character after it as literal text
C22_UnsupportedEchoed ==
    (pc = 1 /\ in.cap = FmtCap) =>
        /\ in.fmt = <<37, 122>> => (FmtAdded = in.fmt /\ out.used = 0)
        /\ (/\ Len(in.fmt) \in {2, 3} /\ in.fmt[1] = 37 /\ in.fmt[2] = 108
            /\ CAt(in.fmt, 2) \notin {100, 117, 120, 88, 37})
             => (FmtAdded = in.fmt /\ out.used = 0)

\* C28: the read position ends on the format's terminator, and the terminator
\* is not appended as data: without a zero %c argument the length is the
\* offset of the first zero byte
C28_StopsAtTerminator ==
    pc = 1 =>
        /\ out.p = Len(in.fmt)
        /\ (\A i \in 1..MaxFmtArgs : in.args[i].chr # 0) => out.len = strlen(out.buf, 0)


-----------------------------------------------------------------------------
(* equals and compare on views: a view is an address in a memory and a      *)
(* length; Nullptr is the null pointer.  memcmp is carried by its sign.      *)

Nullptr == NotFound

\* the sign of memcmp(m + s1, m + s2, n), bytes compared as unsigned char
RECURSIVE memcmp(_, _, _, _)
memcmp(m, s1, s2, n) ==
    IF n = 0 THEN 0
    ELSE IF Rd(m, s1) < Rd(m, s2) THEN -1
    ELSE IF Rd(m, s1) > Rd(m, s2) THEN 1
    ELSE memcmp(m, s1 + 1, s2 + 1, n - 1)

\* bool equals(const char* s1, size_t s1Len, const char* s2, size_t s2Len, bool ignoreCase)
equals(m, s1, s1Len, s2, s2Len, ignoreCase) ==
    IF s1Len # s2Len THEN FALSE
    ELSE IF s1 = s2 THEN TRUE
    ELSE IF s1 = Nullptr \/ s2 = Nullptr THEN FALSE
    ELSE IF ~ignoreCase THEN memcmp(m, s1, s2, s1Len) = 0
    ELSE \A i \in 0..(s1Len - 1) : toLower(Rd(m, s1 + i)) = toLower(Rd(m, s2 + i))

\* int compare(const char* s1, size_t s1Len, const char* s2, size_t s2Len)
compare(m, s1, s1Len, s2, s2Len) ==
    IF s1 = s2 THEN 0
    ELSE IF s1 = Nullptr THEN -1
    ELSE IF s2 = Nullptr THEN 1
    ELSE LET minLen == IF s1Len < s2Len THEN s1Len ELSE s2Len
             res == memcmp(m, s1, s2, minLen)
         IN  IF res # 0 THEN res
             ELSE IF s1Len < s2Len THEN -1
             ELSE IF s1Len > s2Len THEN 1
             ELSE 0

\* Compare harness: two views into one memory of MaxCmpMem bytes.
MaxCmpMem == 4
CmpBytes == {65, 97, 200}

\* the views of a memory of n bytes: an address and a length within it, or Nullptr
CmpViews(n) ==
    {[at |-> a, len |-> l] : a \in 0..(n - 1), l \in 0..n} \cup {[at |-> Nullptr, len |-> 0]}

CmpInit ==
    /\ _buf = <<>> /\ _capacity = 0 /\ _len = 0 /\ _maxLenSeen = 0 /\ lastOp = NoCall
    /\ pc = 0
    /\ \E bytes \in [1..MaxCmpMem -> CmpBytes],
          v1 \in CmpViews(MaxCmpMem), v2 \in CmpViews(MaxCmpMem), ignoreCase \in BOOLEAN :
            /\ v1.at + v1.len <= MaxCmpMem
            /\ v2.at + v2.len <= MaxCmpMem
            /\ in = [mem |-> [i \in 0..(MaxCmpMem - 1) |-> bytes[i + 1]],
                     s1 |-> v1, s2 |-> v2, ignoreCase |-> ignoreCase]
    /\ out = NoCall

\* compare(s1, len1, s2, len2) and equals(s1, len1, s2, len2, ignoreCase)
Compare ==
    /\ pc = 0
    /\ out' = [op |-> "compare",
               cmp |-> compare(in.mem, in.s1.at, in.s1.len, in.s2.at, in.s2.len),
               eq |-> equals(in.mem, in.s1.at, in.s1.len, in.s2.at, in.s2.len, in.ignoreCase)]
    /\ pc' = 1
    /\ UNCHANGED <<in, _buf, _capacity, _len, _maxLenSeen, lastOp>>

CmpNext == Compare

SpecCompare == CmpInit /\ [][CmpNext]_vars

\* the sign of the byte-lexicographic order of two byte sequences
RECURSIVE LexSign(_, _)
LexSign(a, b) ==
    IF a = <<>> /\ b = <<>> THEN 0
    ELSE IF a = <<>> THEN -1
    ELSE IF b = <<>> THEN 1
    ELSE IF Head(a) < Head(b) THEN -1
    ELSE IF Head(a) > Head(b) THEN 1
    ELSE LexSign(Tail(a), Tail(b))

\* C23: for non-null views the sign of compare is the byte-lexicographic order
\* of the two views (the first min(len1, len2) bytes, then len1 against len2),
\* also for two views at one address with different lengths, and compare
\* returns 0 exactly when equals(s1, len1, s2, len2, false) holds
C23_CompareIsLexicographic ==
    (pc = 1 /\ in.s1.at # Nullptr /\ in.s2.at # Nullptr) =>
        /\ out.cmp = LexSign(Bytes(in.mem, in.s1.at, in.s1.len),
                             Bytes(in.mem, in.s2.at, in.s2.len))
        /\ ~in.ignoreCase => ((out.cmp = 0) <=> out.eq)


-----------------------------------------------------------------------------
(* Append harness: one call of append, appendInt, appendFloat or            *)
(* appendPrintf on a buffer of capacity cap holding a content.               *)

MaxAppCap == 24
MaxWidth == 5

AppContents == {<<>>, <<97, 98>>}
AppCaps == {3, 6, MaxAppCap}
AppSrcs == {NULL, <<>>, <<120>>, Hello}
AppPads == {32, 48}

\* 0, 7, -7, -42, 1234, INT_MAX, INT_MIN, 10^10, -10^10, LONG_MAX, LONG_MIN
AppLongs ==
    {Long(0), Long(7), Long(-7), Long(-42), Long(1234),
     [neg |-> FALSE, mag |-> IntMaxMag], [neg |-> TRUE, mag |-> WideInc(IntMaxMag)],
     [neg |-> FALSE, mag |-> TenPow(10)], [neg |-> TRUE, mag |-> TenPow(10)],
     [neg |-> FALSE, mag |-> LongMaxMag], [neg |-> TRUE, mag |-> WideInc(LongMaxMag)]}

\* 1.5, -0.25, 99999999999.0
AppDoubles == {Double(1500000), Double(-250000), [neg |-> FALSE, whole |-> Nines(11), micro |-> 0]}

\* %d  a%sb  %5ld  %c  %x
AppFormats ==
    {<<37, 100>>, <<97, 37, 115, 98>>, <<37, 53, 108, 100>>, <<37, 99>>, <<37, 120>>}

AppInit ==
    /\ _buf = <<>> /\ _capacity = 0 /\ _len = 0 /\ _maxLenSeen = 0 /\ lastOp = NoCall
    /\ pc = 0
    /\ \E content \in AppContents, cap \in AppCaps :
            /\ Len(content) <= cap - 1
            /\ in = [content |-> content, cap |-> cap, buf |-> MemOf(content, cap + Guard, 122)]
    /\ out = NoCall

\* append(buffer, cap, curLen, src, strlen(src))
AppAppend ==
    /\ pc = 0
    /\ \E src \in AppSrcs :
          LET r == append(in.buf, in.cap, Len(in.content), src,
                          IF src = NULL THEN 1 ELSE Len(src))
          IN  out' = [op |-> "append", buf |-> r.buf, len |-> r.len, fault |-> FALSE]
    /\ pc' = 1
    /\ UNCHANGED <<in, _buf, _capacity, _len, _maxLenSeen, lastOp>>

\* appendInt(buffer, cap, curLen, val, width, padChar)
AppAppendInt ==
    /\ pc = 0
    /\ \E val \in AppLongs, width \in 0..MaxWidth, padChar \in AppPads :
          LET r == appendInt(in.buf, in.cap, Len(in.content), val, width, padChar)
          IN  out' = [op |-> "appendInt", val |-> val, width |-> width, padChar |-> padChar,
                      buf |-> r.buf, len |-> r.len, fault |-> r.fault]
    /\ pc' = 1
    /\ UNCHANGED <<in, _buf, _capacity, _len, _maxLenSeen, lastOp>>

\* appendFloat(buffer, cap, curLen, val, decimalPlaces)
AppAppendFloat ==
    /\ pc = 0
    /\ \E val \in AppDoubles, decimalPlaces \in {0, 2} :
          LET r == appendFloat(in.buf, in.cap, Len(in.content), val, decimalPlaces)
          IN  out' = [op |-> "appendFloat", buf |-> r.buf, len |-> r.len, fault |-> r.fault]
    /\ pc' = 1
    /\ UNCHANGED <<in, _buf, _capacity, _len, _maxLenSeen, lastOp>>

\* appendPrintf(buffer, cap, curLen, format, args)
AppAppendPrintf ==
    /\ pc = 0
    /\ \E fmt \in AppFormats, args \in FmtArgLists :
          LET r == appendPrintf(in.buf, in.cap, Len(in.content), FormatMem(fmt, <<>>), args)
          IN  out' = [op |-> "appendPrintf", buf |-> r.buf, len |-> r.len, fault |-> r.fault]
    /\ pc' = 1
    /\ UNCHANGED <<in, _buf, _capacity, _len, _maxLenSeen, lastOp>>

AppNext == AppAppend \/ AppAppendInt \/ AppAppendFloat \/ AppAppendPrintf

SpecAppend == AppInit /\ [][AppNext]_vars

\* the number of bytes of the decimal rendering of val at the given width
RenderLen(val, width) == Max(width, Len(val.mag) + (IF val.neg THEN 1 ELSE 0))

\* does the rendering fit behind the content
RenderFits == Len(in.content) + RenderLen(out.val, out.width) <= in.cap - 1

\* C24: when the rendering fits, appendInt appends max(width, d + s) bytes:
\* '-' for a negative value, then padChar repeated, then the d digits of the
\* magnitude, for every long, the most negative one included
C24_PaddedRendering ==
    (pc = 1 /\ out.op = "appendInt" /\ RenderFits) =>
        LET s == IF out.val.neg THEN <<45>> ELSE <<>>
            n == RenderLen(out.val, out.width)
            pad == [i \in 1..(n - Len(s) - Len(out.val.mag)) |-> out.padChar]
        IN  /\ ~out.fault
            /\ out.len = Len(in.content) + n
            /\ CStr(out.buf, 0) = in.content \o s \o pad \o DigitChars(out.val.mag)

\* C26: when the rendering does not fit, appendInt leaves the content and the
\* length as they were, for negative and non-negative values
C26_WholeNumberOrNothing ==
    (pc = 1 /\ out.op = "appendInt" /\ ~RenderFits) =>
        /\ ~out.fault
        /\ out.len = Len(in.content)
        /\ out.buf = in.buf

\* C29: append, appendInt, appendFloat and appendPrintf store to no byte below
\* the previous length: the previous content is a prefix of the new content
C29_AppendKeepsPrefix ==
    pc = 1 =>
        /\ ~out.fault
        /\ Bytes(out.buf, 0, Len(in.content)) = in.content
        /\ out.len >= Len(in.content)


-----------------------------------------------------------------------------
(* Remove harness: one remove call on a buffer holding a well-formed        *)
(* content of up to MaxRemUnits characters.  The count is a small number or *)
(* one of the two largest size_t values (-1, -2 as carried here).            *)

MaxRemUnits == 3
MaxRemIdx == 4
MaxRemCount == 3

RemUnits == {<<97>>, <<98>>, EAcute, Euro}
RemCounts == 0..MaxRemCount \cup {-1, -2}

RemInit ==
    /\ _buf = <<>> /\ _capacity = 0 /\ _len = 0 /\ _maxLenSeen = 0 /\ lastOp = NoCall
    /\ pc = 0
    /\ \E units \in SeqsUpTo(RemUnits, MaxRemUnits) :
            in = [units |-> units,
                  buf |-> MemOf(Flatten(units), Len(Flatten(units)) + 1 + Guard, 122)]
    /\ out = NoCall

\* remove(buffer, curLen, charIdx, charCount)
RemoveChars ==
    /\ pc = 0
    /\ \E charIdx \in 0..MaxRemIdx, charCount \in RemCounts :
          LET r == remove(in.buf, Len(Flatten(in.units)), charIdx, charCount)
          IN  out' = [op |-> "remove", charIdx |-> charIdx, charCount |-> charCount,
                      buf |-> r.buf, len |-> r.len, fault |-> r.fault]
    /\ pc' = 1
    /\ UNCHANGED <<in, _buf, _capacity, _len, _maxLenSeen, lastOp>>

RemNext == RemoveChars

SpecRemove == RemInit /\ [][RemNext]_vars

\* the characters of units without those of index charIdx .. last - 1
WithoutChars(units, charIdx, last) ==
    SubSeq(units, 1, Min(charIdx, Len(units))) \o SubSeq(units, last + 1, Len(units))

\* C25: on a well-formed buffer of n characters remove(charIdx, charCount)
\* deletes the characters of index charIdx .. min(charIdx + charCount, n) - 1
\* and no other, and returns the new byte length; charIdx >= n changes nothing
C25_RemoveCharRange ==
    pc = 1 =>
        LET n == Len(in.units)
            last == IF out.charCount < 0 \/ out.charIdx + out.charCount > n
                    THEN n ELSE out.charIdx + out.charCount
            kept == WithoutChars(in.units, out.charIdx, Max(last, Min(out.charIdx, n)))
        IN  /\ ~out.fault
            /\ CStr(out.buf, 0) = Flatten(kept)
            /\ out.len = Len(Flatten(kept))


-----------------------------------------------------------------------------
(* Classifier harness: the five classifiers applied to each byte.  toLower  *)
(* and toUpper return char; the result is read as the byte it holds.         *)

ClassInit ==
    /\ _buf = <<>> /\ _capacity = 0 /\ _len = 0 /\ _maxLenSeen = 0 /\ lastOp = NoCall
    /\ pc = 0
    /\ \E c \in Byte : in = [c |-> c]
    /\ out = NoCall

\* toLower(c), toUpper(c), isDigit(c), isSpace(c), isHexDigit(c)
Classify ==
    /\ pc = 0
    /\ out' = [op |-> "classify", lower |-> toLower(in.c), upper |-> toUpper(in.c),
               digit |-> isDigit(in.c), space |-> isSpace(in.c), hex |-> isHexDigit(in.c)]
    /\ pc' = 1
    /\ UNCHANGED <<in, _buf, _capacity, _len, _maxLenSeen, lastOp>>

ClassNext == Classify

SpecClass == ClassInit /\ [][ClassNext]_vars

\* C30: for every byte c the branch-free classifiers agree with the plain
\* ranges: toLower adds 32 exactly on 'A'..'Z', toUpper subtracts 32 exactly on
\* 'a'..'z', isDigit is '0'..'9', isSpace is ' ' or 9..13, isHexDigit is
\* '0'..'9', 'a'..'f', 'A'..'F'; no byte of 0x80 or more is folded or classified
C30_ClassifiersArePlainRanges ==
    pc = 1 =>
        /\ out.lower = (IF in.c \in 65..90 THEN in.c + 32 ELSE in.c)
        /\ out.upper = (IF in.c \in 97..122 THEN in.c - 32 ELSE in.c)
        /\ out.digit = (in.c \in 48..57)
        /\ out.space = (in.c = 32 \/ in.c \in 9..13)
        /\ out.hex = (in.c \in (48..57) \cup (97..102) \cup (65..70))
        /\ in.c >= 128 =>
              (out.lower = in.c /\ out.upper = in.c /\ ~out.digit /\ ~out.space /\ ~out.hex)

\* 'F' is folded to 'f' and is a hex digit; 0xC6 ('F' + 0x80) is left alone
C30_Witness ==
    /\ pc = 1
    /\ \/ (in.c = 70 /\ out.lower = 102 /\ out.hex /\ ~out.digit)
       \/ (in.c = 198 /\ out.lower = 198 /\ ~out.hex)


-----------------------------------------------------------------------------
(* The facade with operator+=(char), appendPrintf and the destructive       *)
(* split added to the operations of Spec, from a few starting objects.       *)

\* StringBase& StringBase::operator+=(char c)
StringBase_plusAssignChar(o, cap, c) == StringBase_append(o, cap, <<c>>, 1)

\* int StringBase::appendPrintf(const char* format, va_list args)
StringBase_appendPrintf(o, cap, format, args) ==
    LET r == appendPrintf(o.buf, cap, o.len, format, args)
    IN  updatePeak([o EXCEPT !.buf = r.buf, !.len = r.len, !.fault = r.fault])

\* size_t StringBase::split(char delimiter, char** tokens, size_t maxTokens)
StringBase_split(o, delimiter, maxTokens) ==
    [o EXCEPT !.buf = split(o.buf, delimiter, <<>>, maxTokens).buf]

\* %c  %d  a%s
FacFormats == {<<37, 99>>, <<37, 100>>, <<97, 37, 115>>}
FacChars == {0, 120}

PlusAssignCharCall ==
    /\ CanCall
    /\ \E c \in FacChars :
          Becomes(StringBase_plusAssignChar(Self, _capacity, c), "operator+=", <<c>>, 0)

AppendPrintfCall ==
    /\ CanCall
    /\ \E fmt \in FacFormats, args \in FmtArgLists :
          Becomes(StringBase_appendPrintf(Self, _capacity, FormatMem(fmt, <<>>), args),
                  "appendPrintf", fmt, args[1].chr)

SplitCall ==
    /\ CanCall
    /\ \E maxTokens \in 1..MaxTokens :
          Becomes(StringBase_split(Self, 32, maxTokens), "split", NULL, 0)

NextAllOps == Next \/ PlusAssignCharCall \/ AppendPrintfCall \/ SplitCall

\* the objects the sequences start from: "", "a" and "a b" in the smallest and
\* the largest buffer
AllOpsContents == {<<>>, <<97>>, <<97, 32, 98>>}

AllOpsInit ==
    /\ pc = 0
    /\ \E content \in AllOpsContents, cap \in {2, MaxFacCap}, fill \in EngFill :
          /\ Len(content) <= cap - 1
          /\ FacadeStart(content, cap, fill)
    /\ in = NoCall
    /\ out = NoCall

SpecAllOps == AllOpsInit /\ [][NextAllOps]_vars

\* C27: after any sequence of facade operations, the destructive split,
\* operator+= with a character and appendPrintf with %c included, the length
\* is the number of bytes in front of the first zero byte of the buffer
C27_LengthIsFirstZero ==
    lastOp.op # "none" => _len = strlen(_buf, 0)

====
